---- MODULE Spec2Model ----
(***************************************************************************)
(* A model of weathermap-ng: the TTL cache (weathermap/datasource.py), the *)
(* multi-source merge, the description parser, the link verifier and       *)
(* matcher and the enrichment calls (weathermap/circuit.py, link.py).      *)
(* Each subsystem has its own specification over the shared variables.     *)
(***************************************************************************)
EXTENDS Integers, Sequences, FiniteSets, TLC

VARIABLES
    \* ---- Cache (datasource.py) ----
    c_data,         \* Cache.data: key -> value, None when the key is absent
    c_timestamp,    \* Cache.timestamp: key -> <<time of the last store>>, <<>> when absent
    c_cached,       \* Cache.cached (threading.Event): TRUE when set
    now,            \* datetime.now(), in ticks
    t_pc,           \* per thread: the statement it is at
    t_op,           \* per thread: the Cache method it called
    t_key,          \* per thread: the args of its call
    t_ret,          \* per thread: what its last get returned
    t_ops,          \* per thread: number of calls started
    running,        \* threads that are inside the producer (update_callback)
    invocations,    \* key -> number of producer invocations started
    waitExpired,    \* TRUE once an Event.wait(timeout) returned on its timeout
    \* ---- Circuit.merge_datasources (circuit.py) ----
    m_data,         \* backend -> the {node -> payload} mapping its callback returns
    m_status,       \* backend -> state of its thread: "running", "done", "raised"
    m_results,      \* the results dict: backend -> mapping, for the threads that stored
    m_order,        \* the backends in the order in which their threads stored
    m_pc,           \* the caller's position: "join", "merge", "returned"
    m_i,            \* the caller's loop index
    m_joined,       \* backend -> how its join ended: "pending", "ended", "timeout"
    m_nodes,        \* the nodes dict being built
    \* ---- Circuit.verify_link called on its own ----
    v_local,        \* the local Interface
    v_remote,       \* the remote Interface
    v_result,       \* what the call did: Verified, a VerificationError, TypeError
    \* ---- Circuit: discovery and matching ----
    d_desc,         \* the datasources, in order: each {node -> {interface -> description}}
    verification_errors,   \* Circuit.verification_errors
    self_nodes,     \* Circuit.nodes (self.nodes), as gather_interfaces left it
    x_op,           \* the last call made on the Circuit
    x_links,        \* the links the last call built (a sequence of Link)
    x_nodes,        \* the node names discover_nodes returned
    x_raised,       \* the exception that left the last call, "none" when it returned
    \* ---- Circuit.get_rates over the between-link cache ----
    e_rates,        \* the backend's rates: {node -> {interface -> the last Rate}}
    e_states,       \* the backend's states: {node -> {interface -> the last State}}
    e_cache,        \* _between_link_cache.data for the key asked: <<>> or <<the list of Link>>
    e_stamp,        \* its timestamp: "none", "fresh" (within the timeout) or "old"
    e_changes,      \* how many times the backend's data changed
    e_op,           \* the last step: "none", "get_rates" or "change"
    e_result,       \* the list get_rates returned
    e_raised,       \* the exception that left get_rates, "none" when it returned
    \* ---- Link objects in a Python set (link.py) ----
    k_a,            \* an Interface
    k_b,            \* another Interface
    k_set,          \* a set() of Link objects
    k_added,        \* which of Link(a, b) ("ab") and Link(b, a) ("ba") were added to it
    \* ---- Circuit._parse_description called on its own ----
    p_tokens,       \* the '_'-separated segments of a description
    p_year,         \* a year token
    p_pos,          \* the segment after which the year token is put in
    p_parsed,       \* <<what _parse_description returned for the description>>, <<>> before
    p_dated,        \* <<what it returned for the description with the year>>, <<>> before
    \* ---- Circuit.get_rates_timeline ----
    h_rates,        \* the backend's historic rates in the window: {node -> {interface -> samples}}
    h_states,       \* the backend's historic states in the window, likewise
    \* ---- InfluxClient._parse_rates / _parse_optics (datasources/influx.py) ----
    i_kind,         \* which query the data answers: "rates" or "optics"
    i_query,        \* query_data[node]: the results, each a series name and its points
    i_op,           \* the last call: "none", "_parse_rates" or "_parse_optics"
    i_parsed,       \* what it returned for the node: {interface -> <<>> or <<the entry>>}
    \* ---- node resolution over the datasources (datasource.py, circuit.py) ----
    r_datasources,  \* self.datasources: each backend's {node -> payload}
    r_extra,        \* one more backend, holding a node none of the others holds
    r_at,           \* where in self.datasources it is put: after the first r_at backends
    r_request,      \* the requested name list
    r_base,         \* <<the merged result without the extra backend>>, <<>> before the call
    r_more,         \* <<the merged result with it>>, <<>> before the call
    \* ---- SNMPPoller: the rate cache and the previous-counter tables (snmp.py) ----
    s_now,          \* datetime.now(), in half seconds
    s_traffic,      \* what the device counted so far
    s_prev_in,      \* prev_in_bytes: <<>> without the node, else <<its counters and timestamp>>
    s_prev_out,     \* prev_out_bytes, likewise
    s_data,         \* _rate_cache.data for the node: <<>> or <<{interface -> Rate}>>
    s_stamp,        \* _rate_cache.timestamp for the node: <<>> or <<time>>
    s_writer,       \* the thread that wrote the previous-counter tables last
    s_read_at,      \* interface -> when the counter stored in prev_in_bytes was read
    s_last,         \* the last _compute_rates on prev_in_bytes: its arguments and result
    \* ---- SNMPPoller: host setup and the poll loop (snmp.py) ----
    n_answers,      \* host -> how the device behaves: "ok", "silent" or "unresolved"
    n_changes,      \* how many times a device changed its behaviour
    sessions,       \* SNMPPoller.sessions, the hosts that have one
    hostnames,      \* SNMPPoller.hostnames, the hosts whose device name is known
    failed_hosts,   \* SNMPPoller.failed_hosts
    failed_counter, \* main_loop's failed_counter
    n_cycle,        \* the poll cycles run so far, modulo PollWindow
    n_polled,       \* the hosts the last cycle polled
    n_loop,         \* "running", or "ended" once an exception left main_loop
    \* ---- a call of a function on its own ----
    u_call,         \* the function called, "none" before the call
    u_arg,          \* its arguments
    u_result        \* what it returned or raised

cacheVars == <<c_data, c_timestamp, c_cached, now, t_pc, t_op, t_key, t_ret, t_ops,
               running, invocations, waitExpired>>

mergeVars == <<m_data, m_status, m_results, m_order, m_pc, m_i, m_joined, m_nodes>>

verifyVars == <<v_local, v_remote, v_result>>
matchVars == <<d_desc, verification_errors, self_nodes, x_op, x_links, x_nodes, x_raised>>

enrichVars == <<e_rates, e_states, e_cache, e_stamp, e_changes, e_op, e_result, e_raised>>

linkVars == <<k_a, k_b, k_set, k_added>>

\* the variables of the subsystems modelled after the enrichment calls
parseVars == <<p_tokens, p_year, p_pos, p_parsed, p_dated>>

timelineVars == <<h_rates, h_states>>

influxVars == <<i_kind, i_query, i_op, i_parsed>>

resolveVars == <<r_datasources, r_extra, r_at, r_request, r_base, r_more>>

snmpVars == <<s_now, s_traffic, s_prev_in, s_prev_out, s_data, s_stamp, s_writer,
              s_read_at, s_last>>

pollVars == <<n_answers, n_changes, sessions, hostnames, failed_hosts, failed_counter,
              n_cycle, n_polled, n_loop>>

unitVars == <<u_call, u_arg, u_result>>

backendVars == <<influxVars, resolveVars, snmpVars, pollVars, unitVars>>

laterVars == <<linkVars, parseVars, timelineVars, backendVars>>

vars == <<cacheVars, mergeVars, verifyVars, matchVars, enrichVars, laterVars>>

(***************************************************************************)
(* Python strings (str methods and the re patterns the code uses)          *)
(***************************************************************************)
CharAt(s, i) == SubSeq(s, i, i)
UpperLetters == "ABCDEFGHIJKLMNOPQRSTUVWXYZ"
LowerLetters == "abcdefghijklmnopqrstuvwxyz"
Digits == "0123456789"
\* the characters of the model's strings, in code point order
CodePoints == " ()-./0123456789:ABCDEFGHIJKLMNOPQRSTUVWXYZ_abcdefghijklmnopqrstuvwxyz"

IndexIn(alphabet, c) ==
    IF \E i \in 1..Len(alphabet) : CharAt(alphabet, i) = c
        THEN CHOOSE i \in 1..Len(alphabet) : CharAt(alphabet, i) = c
        ELSE 0
IsDigit(c) == IndexIn(Digits, c) > 0
\* \w of the re module, for the model's characters
IsWordChar(c) ==
    IndexIn(Digits, c) > 0 \/ IndexIn(UpperLetters, c) > 0 \/ IndexIn(LowerLetters, c) > 0 \/ c = "_"

\* sub in s
Contains(sub, s) ==
    \E i \in 0..(Len(s) - Len(sub)) : SubSeq(s, i + 1, i + Len(sub)) = sub
\* s.startswith(prefix)
StartsWith(s, prefix) ==
    Len(prefix) <= Len(s) /\ SubSeq(s, 1, Len(prefix)) = prefix
\* s.endswith(suffix)
EndsWith(s, suffix) ==
    Len(suffix) <= Len(s) /\ SubSeq(s, Len(s) - Len(suffix) + 1, Len(s)) = suffix

LowerChar(c) ==
    IF IndexIn(UpperLetters, c) > 0 THEN CharAt(LowerLetters, IndexIn(UpperLetters, c)) ELSE c
RECURSIVE Lower(_)
\* s.lower()
Lower(s) == IF s = "" THEN "" ELSE LowerChar(Head(s)) \o Lower(Tail(s))

RECURSIVE SplitFrom(_, _, _, _)
SplitFrom(s, sep, start, i) ==
    IF i > Len(s) THEN <<SubSeq(s, start, Len(s))>>
    ELSE IF CharAt(s, i) = sep
        THEN <<SubSeq(s, start, i - 1)>> \o SplitFrom(s, sep, i + 1, i + 1)
        ELSE SplitFrom(s, sep, start, i + 1)
\* s.split(sep), sep a single character
Split(s, sep) == SplitFrom(s, sep, 1, 1)

\* s.isnumeric() / s.isdigit(), for the model's characters
IsNumeric(s) == s # "" /\ \A i \in 1..Len(s) : IsDigit(CharAt(s, i))
RECURSIVE ToInt(_)
\* int(s) of a string of digits
ToInt(s) ==
    IF s = "" THEN 0
    ELSE 10 * ToInt(SubSeq(s, 1, Len(s) - 1)) + (IndexIn(Digits, CharAt(s, Len(s))) - 1)

\* str(datetime.now().year)
CurrentYear == 2026

\* the places where \d+\/ matches in s: a digit whose run of digits ends at a slash
DigitsSlashAt(s, i) ==
    /\ IsDigit(CharAt(s, i))
    /\ \E j \in i..Len(s) :
          /\ \A x \in i..j : IsDigit(CharAt(s, x))
          /\ j < Len(s)
          /\ CharAt(s, j + 1) = "/"

None == "None"

\* Circuit._get_int_id: re.findall(r'\d+\/.*', int_name), its first match or None
GetIntId(int_name) ==
    IF \E i \in 1..Len(int_name) : DigitsSlashAt(int_name, i)
        THEN LET first == CHOOSE i \in 1..Len(int_name) :
                             /\ DigitsSlashAt(int_name, i)
                             /\ \A j \in 1..(i - 1) : ~DigitsSlashAt(int_name, j)
             IN SubSeq(int_name, first, Len(int_name))
        ELSE None

\* re.match(r'[\w-]*\d+', s): some digit is preceded only by word characters and hyphens
MatchesWordDigits(s) ==
    \E j \in 1..Len(s) :
        /\ IsDigit(CharAt(s, j))
        /\ \A i \in 1..(j - 1) : IsWordChar(CharAt(s, i)) \/ CharAt(s, i) = "-"

RECURSIVE StrLessFrom(_, _, _)
StrLessFrom(a, b, i) ==
    IF i > Len(a) THEN i <= Len(b)
    ELSE IF i > Len(b) THEN FALSE
    ELSE IF CharAt(a, i) = CharAt(b, i) THEN StrLessFrom(a, b, i + 1)
    ELSE IndexIn(CodePoints, CharAt(a, i)) < IndexIn(CodePoints, CharAt(b, i))
\* a < b on str
StrLess(a, b) == StrLessFrom(a, b, 1)

\* a Python dict as a function: its keys are the function's domain
EmptyDict == <<>>
DictGet(d, k, default) == IF k \in DOMAIN d THEN d[k] ELSE default
DictSet(d, k, v) == [x \in DOMAIN d \cup {k} |-> IF x = k THEN v ELSE d[x]]
\* dict.update(other)
DictUpdate(d, other) ==
    [x \in DOMAIN d \cup DOMAIN other |-> IF x \in DOMAIN other THEN other[x] ELSE d[x]]

(***************************************************************************)
(* Cache                                                                   *)
(***************************************************************************)
NumThreads == 2
MaxOps == 2
MaxTime == 2
\* Cache.timeout, in ticks of the model's clock
CacheTimeout == 1

Threads == 1..NumThreads
\* the args tuples the cache is called with
Keys == {"k1", "k2"}
\* what a producer can return: a non-empty value and an empty list / mapping
Values == {"v1", "empty"}

\* Python truthiness of a stored value: None and an empty list or dict are falsy
Truthy(v) == v # None /\ v # "empty"

\* the boolean Cache.expired returns, read from the cache's current state
ExpiredValue(k) ==
    \/ c_timestamp[k] = <<>>
    \/ ~Truthy(c_data[k])
    \/ now - CacheTimeout > c_timestamp[k][1]

\* the rest of the program is not running while the cache is exercised
CacheFrame == UNCHANGED <<mergeVars, verifyVars, matchVars, enrichVars, laterVars>>

CacheInit ==
    /\ c_data = [k \in Keys |-> None]
    /\ c_timestamp = [k \in Keys |-> <<>>]
    /\ c_cached = TRUE
    /\ now = 0
    /\ t_pc = [t \in Threads |-> "idle"]
    /\ t_op = [t \in Threads |-> None]
    /\ t_key = [t \in Threads |-> None]
    /\ t_ret = [t \in Threads |-> None]
    /\ t_ops = [t \in Threads |-> 0]
    /\ running = {}
    /\ invocations = [k \in Keys |-> 0]
    /\ waitExpired = FALSE

\* Event.wait(timeout): returns when the flag is set, or on the timeout while it is clear
EventWait == waitExpired' = (waitExpired \/ ~c_cached)

\* Cache.get: self.expired(*args) (the wait and the test), then update or return
CacheGet(t, k) ==
    /\ t_pc[t] = "idle"
    /\ t_ops[t] < MaxOps
    /\ EventWait
    /\ t_op' = [t_op EXCEPT ![t] = "get"]
    /\ t_key' = [t_key EXCEPT ![t] = k]
    /\ t_ops' = [t_ops EXCEPT ![t] = @ + 1]
    /\ IF ExpiredValue(k)
          THEN /\ t_pc' = [t_pc EXCEPT ![t] = "upd_wait"]
               /\ t_ret' = [t_ret EXCEPT ![t] = None]
          ELSE /\ t_pc' = [t_pc EXCEPT ![t] = "idle"]
               /\ t_ret' = [t_ret EXCEPT ![t] = c_data[k]]
    /\ CacheFrame
    /\ UNCHANGED <<c_data, c_timestamp, c_cached, now, running, invocations>>

\* Cache.update called directly (force update)
CacheUpdate(t, k) ==
    /\ t_pc[t] = "idle"
    /\ t_ops[t] < MaxOps
    /\ t_op' = [t_op EXCEPT ![t] = "update"]
    /\ t_key' = [t_key EXCEPT ![t] = k]
    /\ t_ops' = [t_ops EXCEPT ![t] = @ + 1]
    /\ t_pc' = [t_pc EXCEPT ![t] = "upd_wait"]
    /\ CacheFrame
    /\ UNCHANGED <<c_data, c_timestamp, c_cached, now, t_ret, running, invocations,
                   waitExpired>>

\* update, line 86: self.cached.wait(timeout=10)
UpdateWait(t) ==
    /\ t_pc[t] = "upd_wait"
    /\ EventWait
    /\ t_pc' = [t_pc EXCEPT ![t] = "upd_clear"]
    /\ CacheFrame
    /\ UNCHANGED <<c_data, c_timestamp, c_cached, now, t_op, t_key, t_ret, t_ops,
                   running, invocations>>

\* update, lines 87-91: self.cached.clear(), then the producer is entered
UpdateClear(t) ==
    /\ t_pc[t] = "upd_clear"
    /\ c_cached' = FALSE
    /\ running' = running \cup {t}
    /\ invocations' = [invocations EXCEPT ![t_key[t]] = @ + 1]
    /\ t_pc' = [t_pc EXCEPT ![t] = "in_producer"]
    /\ CacheFrame
    /\ UNCHANGED <<c_data, c_timestamp, now, t_op, t_key, t_ret, t_ops,
                   waitExpired>>

\* update, line 91: the producer returns v and self.data[args] is assigned
UpdateStore(t, v) ==
    /\ t_pc[t] = "in_producer"
    /\ running' = running \ {t}
    /\ c_data' = [c_data EXCEPT ![t_key[t]] = v]
    /\ t_pc' = [t_pc EXCEPT ![t] = "upd_stamp"]
    /\ CacheFrame
    /\ UNCHANGED <<c_timestamp, c_cached, now, t_op, t_key, t_ret, t_ops, invocations,
                   waitExpired>>

\* update, line 91: the producer raises; the exception leaves update and get
UpdateRaise(t) ==
    /\ t_pc[t] = "in_producer"
    /\ running' = running \ {t}
    /\ t_pc' = [t_pc EXCEPT ![t] = "idle"]
    /\ t_ret' = [t_ret EXCEPT ![t] = "raised"]
    /\ CacheFrame
    /\ UNCHANGED <<c_data, c_timestamp, c_cached, now, t_op, t_key, t_ops, invocations,
                   waitExpired>>

\* update, lines 93-94, then get's return self.data.get(args), line 77
UpdateStamp(t) ==
    /\ t_pc[t] = "upd_stamp"
    /\ c_timestamp' = [c_timestamp EXCEPT ![t_key[t]] = <<now>>]
    /\ c_cached' = TRUE
    /\ t_pc' = [t_pc EXCEPT ![t] = IF t_op[t] = "get" THEN "get_ret" ELSE "idle"]
    /\ CacheFrame
    /\ UNCHANGED <<c_data, now, t_op, t_key, t_ret, t_ops, running, invocations,
                   waitExpired>>

GetReturn(t) ==
    /\ t_pc[t] = "get_ret"
    /\ t_ret' = [t_ret EXCEPT ![t] = c_data[t_key[t]]]
    /\ t_pc' = [t_pc EXCEPT ![t] = "idle"]
    /\ CacheFrame
    /\ UNCHANGED <<c_data, c_timestamp, c_cached, now, t_op, t_key, t_ops, running,
                   invocations, waitExpired>>

\* Cache.invalidate, lines 99-100: wait, then clear
CacheInvalidate(t) ==
    /\ t_pc[t] = "idle"
    /\ t_ops[t] < MaxOps
    /\ EventWait
    /\ t_op' = [t_op EXCEPT ![t] = "invalidate"]
    /\ t_key' = [t_key EXCEPT ![t] = None]
    /\ t_ops' = [t_ops EXCEPT ![t] = @ + 1]
    /\ t_pc' = [t_pc EXCEPT ![t] = "inv_clear"]
    /\ CacheFrame
    /\ UNCHANGED <<c_data, c_timestamp, c_cached, now, t_ret, running, invocations>>

InvalidateClear(t) ==
    /\ t_pc[t] = "inv_clear"
    /\ c_cached' = FALSE
    /\ t_pc' = [t_pc EXCEPT ![t] = "inv_reset"]
    /\ CacheFrame
    /\ UNCHANGED <<c_data, c_timestamp, now, t_op, t_key, t_ret, t_ops, running,
                   invocations, waitExpired>>

\* invalidate, lines 101-102: self.timestamp = {}; self.cached.set()
InvalidateReset(t) ==
    /\ t_pc[t] = "inv_reset"
    /\ c_timestamp' = [k \in Keys |-> <<>>]
    /\ c_cached' = TRUE
    /\ t_pc' = [t_pc EXCEPT ![t] = "idle"]
    /\ CacheFrame
    /\ UNCHANGED <<c_data, now, t_op, t_key, t_ret, t_ops, running, invocations,
                   waitExpired>>

\* time passes
Tick ==
    /\ now < MaxTime
    /\ now' = now + 1
    /\ CacheFrame
    /\ UNCHANGED <<c_data, c_timestamp, c_cached, t_pc, t_op, t_key, t_ret, t_ops,
                   running, invocations, waitExpired>>

CacheNext ==
    \/ \E t \in Threads, k \in Keys : CacheGet(t, k)
    \/ \E t \in Threads, k \in Keys : CacheUpdate(t, k)
    \/ \E t \in Threads : UpdateWait(t)
    \/ \E t \in Threads : UpdateClear(t)
    \/ \E t \in Threads, v \in Values : UpdateStore(t, v)
    \/ \E t \in Threads : UpdateRaise(t)
    \/ \E t \in Threads : UpdateStamp(t)
    \/ \E t \in Threads : GetReturn(t)
    \/ \E t \in Threads : CacheInvalidate(t)
    \/ \E t \in Threads : InvalidateClear(t)
    \/ \E t \in Threads : InvalidateReset(t)
    \/ Tick

(***************************************************************************)
(* Circuit.merge_datasources                                               *)
(***************************************************************************)
NumBackends == 3

\* self.datasources, in configuration order
Backends == 1..NumBackends
\* node names the backends can return
MergeKeys == {"node-a", "node-b"}

\* the mapping a backend's callback returns: for each node it knows, its own payload
BackendResult(b, keys) == [k \in keys |-> <<b, k>>]

\* lines 86-89 for one datasource: keep what is in nodes, add the keys that are new
MergeOverwriting(nodes, results, b) ==
    DictUpdate(nodes, DictGet(results, b, EmptyDict))
MergeAborting(nodes, results, b) ==
    IF b \in DOMAIN results THEN DictUpdate(results[b], nodes) ELSE EmptyDict
MergeReplacing(nodes, results, b) == DictGet(results, b, EmptyDict)
MergeDatasource(nodes, results, b) ==
    DictUpdate(DictGet(results, b, EmptyDict), nodes)

MergeInit ==
    /\ \E ks \in [Backends -> SUBSET MergeKeys] :
          m_data = [b \in Backends |-> BackendResult(b, ks[b])]
    /\ m_status = [b \in Backends |-> "running"]
    /\ m_results = EmptyDict
    /\ m_order = <<>>
    /\ m_pc = "join"
    /\ m_i = 1
    /\ m_joined = [b \in Backends |-> "pending"]
    /\ m_nodes = EmptyDict

MergeFrame == UNCHANGED <<cacheVars, verifyVars, matchVars, enrichVars, laterVars>>

\* thr, lines 60-66: the callback returns and results[datasource] is stored
BackendReturn(b) ==
    /\ m_status[b] = "running"
    /\ m_pc # "returned"
    /\ m_status' = [m_status EXCEPT ![b] = "done"]
    /\ m_results' = DictSet(m_results, b, m_data[b])
    /\ m_order' = Append(m_order, b)
    /\ MergeFrame
    /\ UNCHANGED <<m_data, m_pc, m_i, m_joined, m_nodes>>

\* thr: the callback raises; the thread ends and stores nothing
BackendRaise(b) ==
    /\ m_status[b] = "running"
    /\ m_pc # "returned"
    /\ m_status' = [m_status EXCEPT ![b] = "raised"]
    /\ MergeFrame
    /\ UNCHANGED <<m_data, m_results, m_order, m_pc, m_i, m_joined, m_nodes>>

JoinAdvance ==
    /\ m_i' = IF m_i = NumBackends THEN 1 ELSE m_i + 1
    /\ m_pc' = IF m_i = NumBackends THEN "merge" ELSE "join"

\* line 77: thread.join returns because the thread has ended
JoinEnded ==
    /\ m_pc = "join"
    /\ m_status[m_i] # "running"
    /\ m_joined' = [m_joined EXCEPT ![m_i] = "ended"]
    /\ JoinAdvance
    /\ MergeFrame
    /\ UNCHANGED <<m_data, m_status, m_results, m_order, m_nodes>>

\* line 77: thread.join returns on its timeout (15 s, or 60 s with kwargs)
JoinTimeout ==
    /\ m_pc = "join"
    /\ m_status[m_i] = "running"
    /\ m_joined' = [m_joined EXCEPT ![m_i] = "timeout"]
    /\ JoinAdvance
    /\ MergeFrame
    /\ UNCHANGED <<m_data, m_status, m_results, m_order, m_nodes>>

\* lines 81-90: one round of the merge loop; the return after the last one
MergeStep ==
    /\ m_pc = "merge"
    /\ m_nodes' = MergeDatasource(m_nodes, m_results, m_i)
    /\ m_i' = IF m_i = NumBackends THEN m_i ELSE m_i + 1
    /\ m_pc' = IF m_i = NumBackends THEN "returned" ELSE "merge"
    /\ MergeFrame
    /\ UNCHANGED <<m_data, m_status, m_results, m_order, m_joined>>

MergeNext ==
    \/ \E b \in Backends : BackendReturn(b)
    \/ \E b \in Backends : BackendRaise(b)
    \/ JoinEnded
    \/ JoinTimeout
    \/ MergeStep

(***************************************************************************)
(* Description parser, link verifier and matcher (Circuit)                 *)
(***************************************************************************)
\* the configuration of test/test_circuit.py (TestConfig)
DESCRIPTION_EXCLUDELIST == {"-rt-"}
NODE_EXCLUDELIST == {"BAD"}
NODE_SEPARATOR == "-"
NODE_NUM_SEGMENTS == 2
REMOTE_INCLUDELIST == {"VRF", "REMOTE", "ISP"}
DESCRIPTION_PREFIX_EXCLUDELIST == {"PWL"}

\* link.Interface(node, interface, description)
Interface(node, interface, description) ==
    [node |-> node, interface |-> interface, description |-> description]

\* where the code holds None in place of an Interface
NoInterface == Interface(None, None, None)

\* Python's "not x" for a str or None
Falsy(x) == x = None \/ x = ""

YearsKept == 15

\* line 118 with the current year left out of the range
IsInstallYearBeforeNow(token) ==
    IsNumeric(token) /\ CurrentYear - YearsKept < ToInt(token) /\ ToInt(token) < CurrentYear

\* lines 118-121: the token is a circuit installation date
IsInstallYear(token) ==
    IsNumeric(token) /\ CurrentYear - YearsKept < ToInt(token) /\ ToInt(token) <= CurrentYear

\* line 133: node in self.config.NODE_EXCLUDELIST
NodeExcluded(node) == node \in NODE_EXCLUDELIST

\* lines 122-129: the interface ID found in the token, None when it is no real one
ValidIntId(found) ==
    IF Falsy(found) \/ ~MatchesWordDigits(found) THEN None ELSE found

RECURSIVE ParseLoop(_, _, _, _)
\* the while loop of _parse_description, lines 117-140; description[-index] is
\* the index-th token from the right
ParseLoop(description, index, int_id, node) ==
    IF ~(index < Len(description)) THEN <<node, int_id>>
    ELSE IF IsInstallYear(description[Len(description) - index + 1])
        THEN ParseLoop(description, index + 1, int_id, node)
    ELSE IF Falsy(int_id)
        THEN ParseLoop(description, index + 1,
                       ValidIntId(GetIntId(description[Len(description) - index + 1])), node)
    ELSE IF Falsy(node)
        THEN ParseLoop(description, index + 1, int_id,
                       IF NodeExcluded(description[Len(description) - index + 1])
                           THEN None ELSE description[Len(description) - index + 1])
    ELSE <<node, int_id>>

\* lines 141-144: None when neither was found, else Interface(node, int_id, None)
ParseResult(r) ==
    IF Falsy(r[2]) /\ Falsy(r[1]) THEN NoInterface ELSE Interface(r[1], r[2], None)

\* Circuit._parse_description: Interface(node, int_id, None), or None (NoInterface)
ParseTokens(description) ==
    ParseResult(ParseLoop(Split(Lower(description), "_"), 1, None, None))

\* the descriptions the interfaces of the model carry, and their parse, computed once
KnownDescriptions ==
    {"DC_node-b_Te1/1", "DC_node-a_Te1/1", "DC_node-a_Te1/2_2020", "DC_node-b_Te1/2",
     "DC_node-a_Te1/10_2020", "DC_node-b_deadbeef", "DC_node-bb_Te1/1", "DC_Te1/1",
     "DC_node-c_Te1/1", "node-a_Te1/1", "DC_node-b-1_Te1/1", "DC_node-b-2_Te1/1", ""}
ParsedOnce == [d \in KnownDescriptions |-> ParseTokens(d)]
\* Circuit._parse_description, of a description an interface of the model carries
ParseDescription(description) == ParsedOnce[description]

\* the tail of s after its last dot: s.split('.')[-1]
LastDotSegment(s) == LET parts == Split(s, ".") IN parts[Len(parts)]

\* Circuit._check_interface_name
CheckInterfaceName(interface_name) ==
    /\ ~StartsWith(interface_name, "Loopback")
    /\ ~StartsWith(interface_name, "Bundle")
    /\ ~IsNumeric(LastDotSegment(interface_name))

\* Circuit._check_description
CheckDescription(description) ==
    /\ description # ""
    /\ ~\E prefix \in DESCRIPTION_PREFIX_EXCLUDELIST : StartsWith(description, prefix)

\* what verify_link does: it returns True, raises VerificationError with a message
\* (here its kind and the two interfaces the message names), or raises TypeError
Verified == [kind |-> "ok", a |-> NoInterface, b |-> NoInterface]
VerificationError(kind, a, b) == [kind |-> kind, a |-> a, b |-> b]
TypeError == [kind |-> "TypeError", a |-> NoInterface, b |-> NoInterface]
VerificationErrorKinds == {"unparsable", "loop", "mismatch_interface", "mismatch_node"}

\* "x not in s" where x may be None: str.__contains__ raises TypeError on None
NotInRaises(x) == x = None

\* lines 186-206 with the node name tested in one direction only: the description
\* of the local side against the remote node, lines 200-202 left out
VerifyTargetsOneWay(local, remote, remote_target, local_target) ==
    IF local_target = NoInterface THEN VerificationError("unparsable", local, remote)
    ELSE IF remote_target = NoInterface THEN VerificationError("unparsable", remote, local)
    ELSE IF local.node = remote.node
        THEN VerificationError("loop", Interface(local.node, None, None), NoInterface)
    ELSE IF ~Contains(remote_target.interface, local.interface)
        THEN VerificationError("mismatch_interface", remote, local)
    ELSE IF ~Contains(local_target.interface, remote.interface)
        THEN VerificationError("mismatch_interface", local, remote)
    ELSE IF NotInRaises(local_target.node) THEN TypeError
    ELSE IF ~Contains(local_target.node, remote.node)
        THEN VerificationError("mismatch_node", local, remote)
    ELSE Verified

\* lines 186-206: the tests of verify_link on the two parsed descriptions
VerifyTargets(local, remote, remote_target, local_target) ==
    IF local_target = NoInterface THEN VerificationError("unparsable", local, remote)
    ELSE IF remote_target = NoInterface THEN VerificationError("unparsable", remote, local)
    ELSE IF local.node = remote.node
        THEN VerificationError("loop", Interface(local.node, None, None), NoInterface)
    ELSE IF ~Contains(remote_target.interface, local.interface)
        THEN VerificationError("mismatch_interface", remote, local)
    ELSE IF ~Contains(local_target.interface, remote.interface)
        THEN VerificationError("mismatch_interface", local, remote)
    ELSE IF NotInRaises(remote_target.node) THEN TypeError
    ELSE IF ~Contains(remote_target.node, local.node)
        THEN VerificationError("mismatch_node", remote, local)
    ELSE IF NotInRaises(local_target.node) THEN TypeError
    ELSE IF ~Contains(local_target.node, remote.node)
        THEN VerificationError("mismatch_node", local, remote)
    ELSE Verified

\* Circuit.verify_link, lines 183-206
VerifyLink(local, remote) ==
    VerifyTargets(local, remote,
                  ParseDescription(remote.description), ParseDescription(local.description))

\* Link(source, target)
Link(source, target) == [source |-> source, target |-> target]

\* Interface.__str__
InterfaceStr(interface) ==
    interface.node \o " " \o interface.interface
        \o (IF interface.description # "" THEN " (" \o interface.description \o ")" ELSE "")

\* Link.__eq__ on two Links
LinkEq(self, other) ==
    \/ self.source = other.source /\ self.target = other.target
    \/ self.source = other.target /\ self.target = other.source

\* Link.__hash__: hash(str(self.source) + str(self.target)); the hash of a str is
\* stood for by the string hashed
LinkHash(self) == InterfaceStr(self.source) \o InterfaceStr(self.target)

\* Interface.__lt__: the tuples compare field by field
InterfaceLess(a, b) ==
    IF a.node # b.node THEN StrLess(a.node, b.node)
    ELSE IF a.interface # b.interface THEN StrLess(a.interface, b.interface)
    ELSE StrLess(a.description, b.description)

RECURSIVE InsertSorted(_, _)
InsertSorted(seq, x) ==
    IF seq = <<>> THEN <<x>>
    ELSE IF InterfaceLess(x, Head(seq)) THEN <<x>> \o seq
    ELSE <<Head(seq)>> \o InsertSorted(Tail(seq), x)
RECURSIVE Sorted(_)
\* sorted(list of Interface)
Sorted(seq) == IF seq = <<>> THEN <<>> ELSE InsertSorted(Sorted(Tail(seq)), Head(seq))

RECURSIVE SetToSeq(_)
\* the elements of a set of Interfaces, as a list in some order
SetToSeq(S) == IF S = {} THEN <<>> ELSE LET x == CHOOSE y \in S : TRUE IN <<x>> \o SetToSeq(S \ {x})

RECURSIVE Concat(_)
\* the concatenation of a sequence of lists
Concat(seqs) == IF seqs = <<>> THEN <<>> ELSE Head(seqs) \o Concat(Tail(seqs))

\* n copies of x
Repeat(x, n) == [i \in 1..n |-> x]
InSeq(x, seq) == \E i \in 1..Len(seq) : seq[i] = x

\* datasource.lookup_node: the node names a request resolves to in one backend
\* (NoArgs: the callback was called without a node argument)
NoArgs == <<"no args">>
ResolveName(known_nodes, node_name) ==
    IF node_name \in known_nodes THEN {node_name}
    ELSE {n_n \in known_nodes : Contains(node_name, n_n)}
LookupNode(known_nodes, nodes) ==
    IF nodes = NoArgs \/ nodes = <<>> \/ nodes = <<"">> THEN known_nodes
    ELSE UNION {ResolveName(known_nodes, nodes[i]) : i \in 1..Len(nodes)}

\* get_descriptions of one backend (as FakeDatasource and the TSDB backend do it):
\* the descriptions of the resolved nodes
GetDescriptions(backend, nodes) ==
    [n \in LookupNode(DOMAIN backend, nodes) |-> backend[n]]

RECURSIVE MergeAll(_, _, _)
\* merge_datasources when every backend's thread has stored its result
MergeAll(results, nodes, b) ==
    IF b > Len(results) THEN nodes
    ELSE MergeAll(results, MergeDatasource(nodes, results, b), b + 1)
MergeDescriptions(nodes) ==
    MergeAll([b \in 1..Len(d_desc) |-> GetDescriptions(d_desc[b], nodes)], EmptyDict, 1)

\* the list comprehension of get_all_links, lines 253-257, over one merged result
InterfacesOf(all_descriptions, int_check) ==
    {x \in UNION {{Interface(n, i, all_descriptions[n][i]) : i \in DOMAIN all_descriptions[n]} :
                     n \in DOMAIN all_descriptions} :
        (CheckInterfaceName(x.interface) \/ ~int_check) /\ CheckDescription(x.description)}

\* Circuit.get_all_links
GetAllLinks(nodelist, int_check) ==
    IF nodelist = NoArgs \/ nodelist = <<>>
        THEN Sorted(SetToSeq(InterfacesOf(MergeDescriptions(NoArgs), int_check)))
        ELSE Sorted(Concat([m \in 1..Len(nodelist) |->
                 SetToSeq(InterfacesOf(MergeDescriptions(<<nodelist[m]>>), int_check))]))

\* what search_by_description and the callers' pairing loop hand back
Outcome(found, links, errors, raised) ==
    [found |-> found, links |-> links, errors |-> errors, raised |-> raised, nodes |-> {}]

RECURSIVE SearchLoop(_, _, _, _, _, _)
\* the for loop of search_by_description, lines 221-240, from position i on;
\* verified[i] is what verify_link(interface, interfacelist[i]) does
SearchLoop(interfacelist, interface, remote_parsed, verified, i, errors) ==
    IF i > Len(interfacelist) THEN Outcome(NoInterface, <<>>, errors, "none")
    ELSE IF Falsy(remote_parsed.node)
        THEN SearchLoop(interfacelist, interface, remote_parsed, verified, i + 1, errors)
    ELSE IF ~Contains(remote_parsed.node, interfacelist[i].node)
        THEN SearchLoop(interfacelist, interface, remote_parsed, verified, i + 1, errors)
    ELSE IF ~Contains(remote_parsed.interface, interfacelist[i].interface)
        THEN SearchLoop(interfacelist, interface, remote_parsed, verified, i + 1, errors)
    ELSE IF interface.node = interfacelist[i].node
        THEN SearchLoop(interfacelist, interface, remote_parsed, verified, i + 1, errors)
    ELSE IF verified[i] = Verified THEN Outcome(interfacelist[i], <<>>, errors, "none")
    ELSE IF verified[i] = TypeError THEN Outcome(NoInterface, <<>>, errors, "TypeError")
    ELSE SearchLoop(interfacelist, interface, remote_parsed, verified, i + 1, errors \cup {verified[i]})

\* lines 217-219: nothing is searched when the description could not be parsed
SearchParsed(interfacelist, interface, remote_parsed, verified) ==
    IF remote_parsed = NoInterface THEN Outcome(NoInterface, <<>>, {}, "none")
    ELSE SearchLoop(interfacelist, interface, remote_parsed, verified, 1, {})

\* Circuit.search_by_description, with fatal_nonverify=False: the interface found,
\* the errors it adds to verification_errors, the exception
SearchByDescription(interfacelist, interface) ==
    SearchParsed(interfacelist, interface, ParseDescription(interface.description),
                 [i \in 1..Len(interfacelist) |-> VerifyLink(interface, interfacelist[i])])

RECURSIVE PairLoop(_, _, _, _, _, _)
\* the pairing loop, lines 292-302 (and 365-375), from position i on;
\* searched[i] is what search_by_description(matched_descriptions, match) does
PairLoop(matched_descriptions, searched, i, links, exclude, errors) ==
    IF i > Len(matched_descriptions) THEN Outcome(NoInterface, links, errors, "none")
    ELSE IF InSeq(matched_descriptions[i], exclude)
        THEN PairLoop(matched_descriptions, searched, i + 1, links, exclude, errors)
    ELSE IF searched[i].raised # "none"
        THEN Outcome(NoInterface, <<>>, errors \cup searched[i].errors, searched[i].raised)
    ELSE IF searched[i].found # NoInterface /\ ~InSeq(searched[i].found, exclude)
        THEN PairLoop(matched_descriptions, searched, i + 1,
                      Append(links, Link(matched_descriptions[i], searched[i].found)),
                      exclude \o <<matched_descriptions[i], searched[i].found>>,
                      errors \cup searched[i].errors)
    ELSE PairLoop(matched_descriptions, searched, i + 1, links, exclude, errors \cup searched[i].errors)

\* lines 290-302 on a Circuit whose verification_errors start empty at every call
PairLinksForgetting(matched_descriptions, errors) ==
    PairLoop(matched_descriptions,
             [i \in 1..Len(matched_descriptions) |->
                 SearchByDescription(matched_descriptions, matched_descriptions[i])],
             1, <<>>, <<>>, {})

\* lines 290-302 without the exclude list: every match that finds an interface is
\* turned into a Link
PairLinksRepeating(matched_descriptions, errors) ==
    LET searched == [i \in 1..Len(matched_descriptions) |->
                        SearchByDescription(matched_descriptions, matched_descriptions[i])]
        hits == SelectSeq([i \in 1..Len(matched_descriptions) |-> i],
                          LAMBDA i : searched[i].found # NoInterface)
    IN  Outcome(NoInterface,
                [k \in 1..Len(hits) |-> Link(matched_descriptions[hits[k]], searched[hits[k]].found)],
                errors, "none")

\* lines 290-302: links and exclude start empty, every match is searched in turn
PairLinks(matched_descriptions, errors) ==
    PairLoop(matched_descriptions,
             [i \in 1..Len(matched_descriptions) |->
                 SearchByDescription(matched_descriptions, matched_descriptions[i])],
             1, <<>>, <<>>, errors)

DescriptionExcluded(description) ==
    \E exc \in DESCRIPTION_EXCLUDELIST : Contains(exc, description)

\* lines 281-288: how many times get_links_between appends the interface
BetweenMatches(interface, nodelist, skip_self) ==
    Cardinality({m \in 1..Len(nodelist) :
        /\ ~(skip_self /\ Contains(nodelist[m], interface.description)
                       /\ Contains(nodelist[m], interface.node))
        /\ Contains(nodelist[m], interface.description)
        /\ ~DescriptionExcluded(interface.description)})

\* lines 279-288: matched_descriptions
MatchedBetween(descriptions, nodelist, skip_self) ==
    Concat([d \in 1..Len(descriptions) |->
               Repeat(descriptions[d], BetweenMatches(descriptions[d], nodelist, skip_self))])

\* Circuit.get_links_between: the links, the error set afterwards, the exception
GetLinksBetween(nodelist, skip_self, errors) ==
    PairLinks(MatchedBetween(GetAllLinks(nodelist, TRUE), nodelist, skip_self), errors)

RECURSIVE JoinWith(_, _)
\* sep.join(parts)
JoinWith(parts, sep) ==
    IF parts = <<>> THEN ""
    ELSE IF Len(parts) = 1 THEN parts[1]
    ELSE parts[1] \o sep \o JoinWith(Tail(parts), sep)
\* NODE_SEPARATOR.join(node.split(NODE_SEPARATOR)[:NODE_NUM_SEGMENTS])
FirstSegments(parts) ==
    SubSeq(parts, 1, IF Len(parts) < NODE_NUM_SEGMENTS THEN Len(parts) ELSE NODE_NUM_SEGMENTS)
NodePrefix(node) == JoinWith(FirstSegments(Split(node, NODE_SEPARATOR)), NODE_SEPARATOR)

\* lines 351-363: how many times discover_nodes appends the interface
DiscoverMatches(interface, nodelist) ==
    Cardinality({node \in nodelist :
        /\ ~(Contains(node, interface.description) /\ Contains(node, interface.node))
        /\ \/ Contains(node, interface.description)
           \/ Contains(NodePrefix(node), interface.description)
        /\ ~DescriptionExcluded(interface.description)})

\* lines 346-354: the node names of the interfaces, less those the filter removes
FilteredNodes(interfaces, nodefilter) ==
    {node \in {interfaces[i].node : i \in 1..Len(interfaces)} :
        nodefilter = <<>> \/ \E f \in 1..Len(nodefilter) : Contains(nodefilter[f], node)}
\* lines 349-363: matched_descriptions
MatchedDiscover(interfaces, nodelist) ==
    Concat([d \in 1..Len(interfaces) |->
               Repeat(interfaces[d], DiscoverMatches(interfaces[d], nodelist))])
\* lines 377-380: without orphans, the nodes that are an endpoint of some link
WithoutOrphans(nodelist, links) ==
    {node \in nodelist :
        \E l \in 1..Len(links) : node = links[l].source.node \/ node = links[l].target.node}
\* lines 377-386: the result, with the ids of its "nodes" list
DiscoverResult(nodelist, include_orphans, r) ==
    IF r.raised # "none" THEN r
    ELSE [r EXCEPT !.nodes = IF include_orphans THEN nodelist ELSE WithoutOrphans(nodelist, r.links)]
\* lines 346-386, with the interfaces and the node list at hand
DiscoverAmong(interfaces, nodelist, include_orphans, errors) ==
    DiscoverResult(nodelist, include_orphans,
                   PairLinks(MatchedDiscover(interfaces, nodelist), errors))
DiscoverFrom(interfaces, nodefilter, include_orphans, errors) ==
    DiscoverAmong(interfaces, FilteredNodes(interfaces, nodefilter), include_orphans, errors)
\* Circuit.discover_nodes: the links, the ids of the "nodes" list, the error set
\* afterwards, the exception
DiscoverNodes(nodefilter, include_orphans, errors) ==
    DiscoverFrom(GetAllLinks(NoArgs, TRUE), nodefilter, include_orphans, errors)

(***************************************************************************)
(* verify_link called on two interfaces                                    *)
(***************************************************************************)
VerifyNodes == {"node-a", "node-b"}
VerifyInterfaceNames == {"TenGigabitEth1/1", "TenGigabitEth1/10"}
VerifyDescriptions ==
    {"DC_node-b_Te1/1", "DC_node-a_Te1/1", "DC_node-a_Te1/10_2020",
     "DC_Te1/1", "DC_node-b_deadbeef", "DC_node-bb_Te1/1"}
VerifyInterfaces ==
    {Interface(n, i, d) : n \in VerifyNodes, i \in VerifyInterfaceNames, d \in VerifyDescriptions}

Pending == [kind |-> "pending", a |-> NoInterface, b |-> NoInterface]

VerifyInit ==
    /\ v_local \in VerifyInterfaces
    /\ v_remote \in VerifyInterfaces
    /\ v_result = Pending

VerifyFrame == UNCHANGED <<cacheVars, mergeVars, matchVars, enrichVars, laterVars>>

\* a caller runs verify_link(local, remote)
VerifyLinkCall ==
    /\ v_result = Pending
    /\ v_result' = VerifyLink(v_local, v_remote)
    /\ VerifyFrame
    /\ UNCHANGED <<v_local, v_remote>>

VerifyNext == VerifyLinkCall

(***************************************************************************)
(* Calls on a Circuit over one set of interface descriptions               *)
(***************************************************************************)
DescriptionPool ==
    {"DC_node-b_Te1/1", "DC_node-a_Te1/1", "DC_node-a_Te1/2_2020", "DC_node-bb_Te1/1", "node-a_Te1/1"}
MatchNodes == {"node-a", "node-b"}
MatchInterfaceNames == {"TenGigabitEth1/1", "TenGigabitEth1/2"}
NodeLists == {<<"node">>, <<"node-a", "node-b">>}
NodeFilters == {<<>>, <<"node-a">>}

\* FakeDatasource.get_nodes of every backend, merged
GetNodes == MergeAll([b \in 1..Len(d_desc) |-> [n \in DOMAIN d_desc[b] |-> DOMAIN d_desc[b][n]]], EmptyDict, 1)

MatchInit ==
    /\ d_desc \in {<<d>> : d \in [MatchNodes -> [MatchInterfaceNames -> DescriptionPool]]}
    /\ verification_errors = {}
    /\ self_nodes = EmptyDict
    /\ x_op = <<"none">>
    /\ x_links = <<>>
    /\ x_nodes = {}
    /\ x_raised = "none"

MatchFrame == UNCHANGED <<cacheVars, mergeVars, verifyVars, enrichVars, laterVars>>

\* the call returned or raised r
CallDone(r) ==
    /\ x_links' = r.links
    /\ x_nodes' = r.nodes
    /\ x_raised' = r.raised
    /\ verification_errors' = r.errors

\* a caller runs get_links_between(nodelist, skip_self)
GetLinksBetweenCall(nodelist, skip_self) ==
    /\ x_op' = <<"get_links_between", nodelist, skip_self>>
    /\ CallDone(GetLinksBetween(nodelist, skip_self, verification_errors))
    /\ MatchFrame
    /\ UNCHANGED <<d_desc, self_nodes>>

\* a caller runs discover_nodes(nodefilter, include_orphans)
DiscoverNodesCall(nodefilter, include_orphans) ==
    /\ x_op' = <<"discover_nodes", nodefilter, include_orphans>>
    /\ self_nodes' = GetNodes
    /\ CallDone(DiscoverNodes(nodefilter, include_orphans, verification_errors))
    /\ MatchFrame
    /\ UNCHANGED <<d_desc>>

\* Circuit.reset_discover_errors
ResetDiscoverErrors ==
    /\ verification_errors' = {}
    /\ x_op' = <<"reset_discover_errors">>
    /\ x_links' = <<>>
    /\ x_nodes' = {}
    /\ x_raised' = "none"
    /\ MatchFrame
    /\ UNCHANGED <<d_desc, self_nodes>>

MatchNext ==
    \/ \E nodelist \in NodeLists, skip_self \in BOOLEAN : GetLinksBetweenCall(nodelist, skip_self)
    \/ \E nodefilter \in NodeFilters, include_orphans \in BOOLEAN : DiscoverNodesCall(nodefilter, include_orphans)
    \/ ResetDiscoverErrors

(***************************************************************************)
(* The pairing loop on candidate lists that repeat an interface            *)
(***************************************************************************)
PairNodes == {"node-a", "node-b-1", "node-b-2"}
PairInterfaceNames == {"TenGigabitEth1/1", "TenGigabitEth1/10"}
\* the descriptions an interface of the node may carry
PairDescriptionPool ==
    [n \in PairNodes |->
        IF n = "node-a" THEN {"DC_node-a_Te1/1", "DC_node-b-1_Te1/1"}
        ELSE IF n = "node-b-1" THEN {"DC_node-a_Te1/1", "DC_node-b-2_Te1/1"}
        ELSE {"DC_node-a_Te1/1", "DC_node-b-1_Te1/1"}]
PairTopologies ==
    {d \in [PairNodes -> [PairInterfaceNames -> UNION {PairDescriptionPool[n] : n \in PairNodes}]] :
        \A n \in PairNodes, i \in PairInterfaceNames : d[n][i] \in PairDescriptionPool[n]}
PairNodeLists == {<<"node">>, <<"node", "node-a">>}

PairInit ==
    /\ d_desc \in {<<d>> : d \in PairTopologies}
    /\ verification_errors = {}
    /\ self_nodes = EmptyDict
    /\ x_op = <<"none">>
    /\ x_links = <<>>
    /\ x_nodes = {}
    /\ x_raised = "none"

PairNext ==
    \/ \E nodelist \in PairNodeLists, skip_self \in BOOLEAN :
          GetLinksBetweenCall(nodelist, skip_self)
    \/ \E include_orphans \in BOOLEAN : DiscoverNodesCall(<<>>, include_orphans)

(***************************************************************************)
(* get_links_remote (Circuit, Remote)                                      *)
(***************************************************************************)
\* link.Remote(source, remote)
Remote(source, remote) == [source |-> source, remote |-> remote]

RECURSIVE CountFrom(_, _, _)
\* s.count(sub): the occurrences of sub in s that do not overlap, from position i on
CountFrom(s, sub, i) ==
    IF i + Len(sub) - 1 > Len(s) THEN 0
    ELSE IF SubSeq(s, i, i + Len(sub) - 1) = sub THEN 1 + CountFrom(s, sub, i + Len(sub))
    ELSE CountFrom(s, sub, i + 1)
\* where sub first starts in s
FirstAt(s, sub) ==
    CHOOSE i \in 1..Len(s) :
        /\ SubSeq(s, i, i + Len(sub) - 1) = sub
        /\ \A j \in 1..(i - 1) : SubSeq(s, j, j + Len(sub) - 1) # sub

\* line 326: the remote names a local node after one double dash
IsLocal(remote) == Contains("--", remote) /\ CountFrom(remote, "--", 1) = 1
\* line 327: remote, specificnode = remote.split('--')
RemoteName(remote) ==
    IF IsLocal(remote) THEN SubSeq(remote, 1, FirstAt(remote, "--") - 1) ELSE remote
SpecificNode(remote) == SubSeq(remote, FirstAt(remote, "--") + 2, Len(remote))

\* line 318: a segment of REMOTE_INCLUDELIST is in the description, whatever the case
RemoteIncluded(description) ==
    \E segment \in REMOTE_INCLUDELIST : Contains(Lower(segment), Lower(description))

\* lines 320-331: the interface is appended for this entry of nodelist and this remote
RemoteMatches(interface, match, remote) ==
    /\ Contains(match, interface.node)
    /\ IsLocal(remote) => Contains(SpecificNode(remote), match)
    /\ Contains(Lower(RemoteName(remote)), Lower(interface.description))

\* lines 317-331: matched_descriptions, the (interface, remote_orig) pairs in the
\* order of the three loops
MatchedRemote(descriptions, nodelist, remotelist) ==
    Concat([d \in 1..Len(descriptions) |->
        IF ~RemoteIncluded(descriptions[d].description) THEN <<>>
        ELSE Concat([m \in 1..Len(nodelist) |->
                Concat([r \in 1..Len(remotelist) |->
                    IF RemoteMatches(descriptions[d], nodelist[m], remotelist[r])
                        THEN <<Remote(descriptions[d], remotelist[r])>> ELSE <<>>])])])

\* (interface, remote_orig) < (interface, remote_orig) on tuples
RemoteLess(a, b) ==
    IF a.source # b.source THEN InterfaceLess(a.source, b.source) ELSE StrLess(a.remote, b.remote)
RECURSIVE InsertRemote(_, _)
InsertRemote(seq, x) ==
    IF seq = <<>> THEN <<x>>
    ELSE IF RemoteLess(x, Head(seq)) THEN <<x>> \o seq
    ELSE <<Head(seq)>> \o InsertRemote(Tail(seq), x)
RECURSIVE SortedRemotes(_)
\* line 334: sorted(matched_descriptions)
SortedRemotes(seq) ==
    IF seq = <<>> THEN <<>> ELSE InsertRemote(SortedRemotes(Tail(seq)), Head(seq))

\* Circuit.get_links_remote
GetLinksRemote(nodelist, remotelist) ==
    SortedRemotes(MatchedRemote(GetAllLinks(nodelist, FALSE), nodelist, remotelist))

RemotePool == {"ISP_zayo_I2-TR", "isp_zayo", "DC_I2_Te1/1"}
RemoteInterfaceNames == {"TenGigabitEth1/3", "Bundle-Ether3"}
RemoteNodeLists == {<<"node">>, <<"node-a">>, <<"node-b", "node-a">>}
RemoteLists == {<<"I2--node">>, <<"i2--node-a">>, <<"I2">>, <<"zayo--node-b">>}

RemoteInit ==
    /\ d_desc \in {<<d>> : d \in [MatchNodes -> [RemoteInterfaceNames -> RemotePool]]}
    /\ verification_errors = {}
    /\ self_nodes = EmptyDict
    /\ x_op = <<"none">>
    /\ x_links = <<>>
    /\ x_nodes = {}
    /\ x_raised = "none"

\* a caller runs get_links_remote(nodelist, remotelist)
GetLinksRemoteCall(nodelist, remotelist) ==
    /\ x_op' = <<"get_links_remote", nodelist, remotelist>>
    /\ x_links' = GetLinksRemote(nodelist, remotelist)
    /\ x_nodes' = {}
    /\ x_raised' = "none"
    /\ MatchFrame
    /\ UNCHANGED <<d_desc, verification_errors, self_nodes>>

RemoteNext ==
    \E nodelist \in RemoteNodeLists, remotelist \in RemoteLists :
        GetLinksRemoteCall(nodelist, remotelist)

(***************************************************************************)
(* Calls on one Circuit while the descriptions in the backend are fixed    *)
(***************************************************************************)
SessionPool == {"DC_node-b_Te1/1", "DC_node-a_Te1/1", "DC_node-b_deadbeef"}
SessionNodeList == <<"node", "node-a", "node-b">>

\* the description that names the interface of the same name on the other node
FixedDescription(node, interface) ==
    IF node = "node-a"
        THEN (IF interface = "TenGigabitEth1/1" THEN "DC_node-b_Te1/1" ELSE "DC_node-b_Te1/2")
        ELSE (IF interface = "TenGigabitEth1/1" THEN "DC_node-a_Te1/1" ELSE "DC_node-a_Te1/2_2020")

SessionInit ==
    /\ d_desc \in {<<d>> : d \in [MatchNodes -> [MatchInterfaceNames -> SessionPool]]}
    /\ verification_errors = {}
    /\ self_nodes = EmptyDict
    /\ x_op = <<"none">>
    /\ x_links = <<>>
    /\ x_nodes = {}
    /\ x_raised = "none"

\* the description of an interface is put right in the backend
\* (edit_topo[node][interface] = description)
FixDescription(node, interface) ==
    /\ d_desc[1][node][interface] # FixedDescription(node, interface)
    /\ d_desc' = <<[d_desc[1] EXCEPT ![node][interface] = FixedDescription(node, interface)]>>
    /\ x_op' = <<"fix_description", node, interface>>
    /\ x_links' = <<>>
    /\ x_nodes' = {}
    /\ x_raised' = "none"
    /\ MatchFrame
    /\ UNCHANGED <<verification_errors, self_nodes>>

SessionNext ==
    \/ GetLinksBetweenCall(SessionNodeList, TRUE)
    \/ DiscoverNodesCall(<<>>, FALSE)
    \/ ResetDiscoverErrors
    \/ \E node \in MatchNodes, interface \in MatchInterfaceNames : FixDescription(node, interface)

(***************************************************************************)
(* get_rates over the cached between-links (Circuit, Link, Rate)           *)
(***************************************************************************)
MaxChanges == 3

\* datasource.Rate(in_r, out_r, bw, ...) and State(state, ...)
Rate(in_r, out_r, bw) == [in_r |-> in_r, out_r |-> out_r, bw |-> bw]
\* Rate.reverse
Reverse(rate) == Rate(rate.out_r, rate.in_r, rate.bw)
\* where the code holds None in place of a Rate
NoRate == [in_r |-> "absent", out_r |-> "absent", bw |-> "absent"]
\* the sample test_missing_rate stores for a missing rate
NullRate == Rate(None, None, None)
RateSamples == {Rate("in1", "out1", "bw1"), Rate("in2", "out2", "bw2"), NullRate}
Up == "up"

\* Link.__init__: every data field None
NewLink(source, target) ==
    [source |-> source, target |-> target,
     in_rate |-> None, out_rate |-> None, bandwidth |-> None, state |-> None]
\* Link.set_rates: nothing happens on None
SetRates(link, rate) ==
    IF rate = NoRate THEN link
    ELSE [link EXCEPT !.in_rate = rate.in_r, !.out_rate = rate.out_r, !.bandwidth = rate.bw]
\* Link.set_state: nothing happens on None
SetState(link, state) ==
    IF state = None THEN link ELSE [link EXCEPT !.state = state]
\* link.in_rate is None and link.out_rate is None and link.bandwidth is None
NoRates(link) == link.in_rate = None /\ link.out_rate = None /\ link.bandwidth = None

\* the topology of the calls: node-a -- node-b -- node-c
EnrichDescriptions ==
    [n \in {"node-a", "node-b", "node-c"} |->
        CASE n = "node-a" -> [i \in {"TenGigabitEth1/1"} |-> "DC_node-b_Te1/1"]
          [] n = "node-b" -> [i \in {"TenGigabitEth1/1", "TenGigabitEth1/2"} |->
                                 IF i = "TenGigabitEth1/1" THEN "DC_node-a_Te1/1" ELSE "DC_node-c_Te1/1"]
          [] n = "node-c" -> [i \in {"TenGigabitEth1/1"} |-> "DC_node-b_Te1/2"]]
\* the arguments of every call: get_rates(['node'])
EnrichNodeList == <<"node">>
EnrichSkipSelf == FALSE

\* FakeDatasource.get_rates / get_states behind lookup_node, merged over the backends
BackendData(data, node) ==
    MergeAll(<<[n \in LookupNode(DOMAIN d_desc[1], <<node>>) \cap DOMAIN data |-> data[n]]>>,
             EmptyDict, 1)

\* the locals of one round of the loop of get_rates, lines 465-493
Round(link, tmp_rates, tmp_states) ==
    [link |-> link, tmp_rates |-> tmp_rates, tmp_states |-> tmp_states, raised |-> "none"]

\* lines 467-470: fetch the source node's rates and states once
FetchSource(f) ==
    [f EXCEPT
        !.tmp_rates = IF f.link.source.node \in DOMAIN f.tmp_rates THEN @
                      ELSE DictUpdate(@, BackendData(e_rates, f.link.source.node)),
        !.tmp_states = IF f.link.source.node \in DOMAIN f.tmp_states THEN @
                       ELSE DictUpdate(@, BackendData(e_states, f.link.source.node))]

\* lines 472-473: tmp_rates[node] and tmp_states[node] raise KeyError on a missing node
SourceSide(f) ==
    IF f.link.source.node \notin DOMAIN f.tmp_rates THEN [f EXCEPT !.raised = "KeyError"]
    ELSE IF f.link.source.node \notin DOMAIN f.tmp_states
        THEN [f EXCEPT
                 !.link = SetRates(@, DictGet(f.tmp_rates[f.link.source.node], f.link.source.interface, NoRate)),
                 !.raised = "KeyError"]
    ELSE [f EXCEPT
             !.link = SetState(
                 SetRates(@, DictGet(f.tmp_rates[f.link.source.node], f.link.source.interface, NoRate)),
                 DictGet(f.tmp_states[f.link.source.node], f.link.source.interface, None))]

\* lines 478-482 and 484-487: the result keyed by the node, or the result itself
Unkeyed(result, node) == IF node \in DOMAIN result THEN result[node] ELSE result

\* lines 476-487: fetch the target node's rates and states once
FetchTarget(f) ==
    IF f.link.target.node \in DOMAIN f.tmp_rates THEN f
    ELSE [f EXCEPT
             !.tmp_rates = DictSet(@, f.link.target.node,
                                   Unkeyed(BackendData(e_rates, f.link.target.node), f.link.target.node)),
             !.tmp_states = DictSet(@, f.link.target.node,
                                    Unkeyed(BackendData(e_states, f.link.target.node), f.link.target.node))]

\* rate_lookup.reverse() if rate_lookup else None
ReverseOrNone(rate_lookup) == IF rate_lookup = NoRate THEN NoRate ELSE Reverse(rate_lookup)

\* lines 488-490: the reversed rate and the state of the target side
TargetSide(f) ==
    IF f.link.target.node \notin DOMAIN f.tmp_states
        THEN [f EXCEPT
                 !.link = SetRates(@, ReverseOrNone(
                     DictGet(f.tmp_rates[f.link.target.node], f.link.target.interface, NoRate))),
                 !.raised = "KeyError"]
    ELSE [f EXCEPT
             !.link = SetState(
                 SetRates(@, ReverseOrNone(
                     DictGet(f.tmp_rates[f.link.target.node], f.link.target.interface, NoRate))),
                 DictGet(f.tmp_states[f.link.target.node], f.link.target.interface, None))]

\* line 475: the target side is read only when the link carries no rate (remotes not set)
Fallback(f) ==
    IF f.raised # "none" \/ ~NoRates(f.link) THEN f ELSE TargetSide(FetchTarget(f))

\* lines 466-490: one round
Enrich(f) == Fallback(SourceSide(FetchSource(f)))

\* the cached list with the Link object old as the round left it
Replaced(links, old, new) == [k \in 1..Len(links) |-> IF links[k] = old THEN new ELSE links[k]]
\* links.remove(link)
Removed(links, old) == SelectSeq(links, LAMBDA l : l # old)

\* what get_rates hands back: the list (the cached one), the exception
Enriched(links, raised) == [links |-> links, raised |-> raised]

RECURSIVE RatesLoop(_, _, _, _, _)
RECURSIVE RatesRound(_, _, _, _)
\* lines 491-493: the link is removed from the cached list when it carries no rate
RatesRound(links_copy, i, links, f) ==
    IF f.raised # "none" THEN Enriched(Replaced(links, links_copy[i], f.link), f.raised)
    ELSE IF NoRates(f.link)
        THEN RatesLoop(links_copy, i + 1, Removed(links, links_copy[i]), f.tmp_rates, f.tmp_states)
    ELSE RatesLoop(links_copy, i + 1, Replaced(links, links_copy[i], f.link), f.tmp_rates, f.tmp_states)
\* the loop of get_rates over copy(links), lines 465-494, from position i on
RatesLoop(links_copy, i, links, tmp_rates, tmp_states) ==
    IF i > Len(links_copy) THEN Enriched(links, "none")
    ELSE RatesRound(links_copy, i, links, Enrich(Round(links_copy[i], tmp_rates, tmp_states)))

\* Cache.expired for the key asked: no timestamp, no or an empty list, or too old
Expired == ~(e_stamp = "fresh" /\ e_cache # <<>> /\ e_cache[1] # <<>>)

\* Cache.update: the Links get_links_between builds
NewLinks(r) == [k \in 1..Len(r.links) |-> NewLink(r.links[k].source, r.links[k].target)]

EnrichInit ==
    /\ d_desc = <<EnrichDescriptions>>
    /\ verification_errors = {}
    /\ self_nodes = EmptyDict
    /\ x_op = <<"none">>
    /\ x_links = <<>>
    /\ x_nodes = {}
    /\ x_raised = "none"
    /\ \E r \in RateSamples \ {NullRate} :
          e_rates = [n \in DOMAIN EnrichDescriptions |-> [i \in DOMAIN EnrichDescriptions[n] |-> r]]
    /\ e_states = [n \in DOMAIN EnrichDescriptions |-> [i \in DOMAIN EnrichDescriptions[n] |-> Up]]
    /\ e_cache = <<>>
    /\ e_stamp = "none"
    /\ e_changes = 0
    /\ e_op = "none"
    /\ e_result = <<>>
    /\ e_raised = "none"

EnrichFrame == UNCHANGED <<cacheVars, mergeVars, verifyVars, laterVars, d_desc, x_op, x_links, x_nodes, x_raised>>

\* lines 465-494 on the list the cache handed over
RatesReturn(r) ==
    /\ e_cache' = <<r.links>>
    /\ e_result' = IF r.raised = "none" THEN r.links ELSE <<>>
    /\ e_raised' = r.raised

\* get_rates when the cache holds a fresh, non-empty list: line 462 returns it
GetRatesCached ==
    /\ ~Expired
    /\ e_op' = "get_rates"
    /\ self_nodes' = GetNodes
    /\ RatesReturn(RatesLoop(e_cache[1], 1, e_cache[1], EmptyDict, EmptyDict))
    /\ EnrichFrame
    /\ UNCHANGED <<verification_errors, e_rates, e_states, e_stamp, e_changes>>

\* the cache ran get_links_between and stored its result r
RatesProduced(r) ==
    /\ verification_errors' = r.errors
    /\ IF r.raised # "none"
          THEN /\ e_raised' = r.raised
               /\ e_result' = <<>>
               /\ UNCHANGED <<e_cache, e_stamp>>
          ELSE /\ e_stamp' = "fresh"
               /\ RatesReturn(RatesLoop(NewLinks(r), 1, NewLinks(r), EmptyDict, EmptyDict))

\* get_rates when the cache has no list, an empty one or an old one: Cache.get runs
\* get_links_between first
GetRatesProducing ==
    /\ Expired
    /\ e_op' = "get_rates"
    /\ self_nodes' = GetNodes
    /\ RatesProduced(GetLinksBetween(EnrichNodeList, EnrichSkipSelf, verification_errors))
    /\ EnrichFrame
    /\ UNCHANGED <<e_rates, e_states, e_changes>>

\* the backend's data changed
Changed ==
    /\ e_changes < MaxChanges
    /\ e_changes' = e_changes + 1
    /\ e_op' = "change"
    /\ EnrichFrame
    /\ UNCHANGED <<verification_errors, self_nodes, e_cache, e_stamp, e_result, e_raised>>

\* the backend stores a sample for an interface of a node it has rates of
SetRate(n, i, r) ==
    /\ n \in DOMAIN e_rates
    /\ e_rates' = [e_rates EXCEPT ![n] = DictSet(@, i, r)]
    /\ Changed
    /\ UNCHANGED <<e_states>>

\* the backend holds no sample of the interface any more
DeleteRate(n, i) ==
    /\ n \in DOMAIN e_rates
    /\ i \in DOMAIN e_rates[n]
    /\ e_rates' = [e_rates EXCEPT ![n] = [j \in DOMAIN @ \ {i} |-> @[j]]]
    /\ Changed
    /\ UNCHANGED <<e_states>>

\* del datasource.rates[n]
DeleteRatesNode(n) ==
    /\ n \in DOMAIN e_rates
    /\ e_rates' = [m \in DOMAIN e_rates \ {n} |-> e_rates[m]]
    /\ Changed
    /\ UNCHANGED <<e_states>>

\* del datasource.states[n]
DeleteStatesNode(n) ==
    /\ n \in DOMAIN e_states
    /\ e_states' = [m \in DOMAIN e_states \ {n} |-> e_states[m]]
    /\ Changed
    /\ UNCHANGED <<e_rates>>

\* the cache's timeout (one hour) passes
HourPasses ==
    /\ e_stamp = "fresh"
    /\ e_stamp' = "old"
    /\ e_op' = "change"
    /\ EnrichFrame
    /\ UNCHANGED <<verification_errors, self_nodes, e_rates, e_states, e_cache, e_changes, e_result, e_raised>>

EnrichNext ==
    \/ GetRatesCached
    \/ GetRatesProducing
    \/ \E n \in DOMAIN EnrichDescriptions : \E i \in DOMAIN EnrichDescriptions[n] :
          \E r \in RateSamples : SetRate(n, i, r)
    \/ \E n \in DOMAIN EnrichDescriptions : \E i \in DOMAIN EnrichDescriptions[n] : DeleteRate(n, i)
    \/ \E n \in DOMAIN EnrichDescriptions : DeleteRatesNode(n)
    \/ \E n \in DOMAIN EnrichDescriptions : DeleteStatesNode(n)
    \/ HourPasses

(***************************************************************************)
(* get_rates_timeline over the cached between-links                        *)
(***************************************************************************)
\* get_historic_rates / get_historic_states behind lookup_node, merged over the backends
HistoricData(data, nodes) ==
    MergeAll(<<[n \in LookupNode(DOMAIN d_desc[1], nodes) \cap DOMAIN data |-> data[n]]>>,
             EmptyDict, 1)

\* line 515: set(link.source.node for link in links)
SourceNodes(links) == SetToSeq({links[k].source.node : k \in 1..Len(links)})

\* the locals of get_rates_timeline: the cached list, the position of the for loop
\* in it, the two dicts, timeline_links, the exception
Timeline(links, i, tmp_rates, tmp_states, timeline_links, raised) ==
    [links |-> links, i |-> i, tmp_rates |-> tmp_rates, tmp_states |-> tmp_states,
     timeline_links |-> timeline_links, raised |-> raised]

RECURSIVE Snapshots(_, _, _, _)
\* lines 538-542: each snapshot is a copy of the one before it with the sample set
Snapshots(link, link_rates, link_states, j) ==
    IF j > Len(link_rates) \/ j > Len(link_states) THEN <<>>
    ELSE <<SetState(SetRates(link, link_rates[j]), link_states[j])>>
             \o Snapshots(SetState(SetRates(link, link_rates[j]), link_states[j]),
                          link_rates, link_states, j + 1)

RECURSIVE TargetSnapshots(_, _, _)
\* lines 557-563: set_state is handed the list of the target's states and sets nothing
TargetSnapshots(link, target_rates, j) ==
    IF j > Len(target_rates) THEN <<>>
    ELSE <<SetRates(link, ReverseOrNone(target_rates[j]))>>
             \o TargetSnapshots(SetRates(link, ReverseOrNone(target_rates[j])), target_rates, j + 1)

\* all(tl.in_rate is None and tl.out_rate is None and tl.bandwidth is None ...)
AllNoRates(timeline_link) == \A k \in 1..Len(timeline_link) : NoRates(timeline_link[k])

\* list.remove(link): the first element that is == link goes
RemoveFirst(links, link) ==
    IF \E k \in 1..Len(links) : LinkEq(links[k], link)
        THEN [k \in 1..(Len(links) - 1) |->
                 IF k < (CHOOSE f \in 1..Len(links) :
                            LinkEq(links[f], link) /\ \A g \in 1..(f - 1) : ~LinkEq(links[g], link))
                     THEN links[k] ELSE links[k + 1]]
        ELSE links

\* continue: the for loop takes the next position of the list
Skip(t) == [t EXCEPT !.i = @ + 1]
\* tmp_rates[node] / tmp_states[node] raise KeyError on a missing node
Raise(t) == [t EXCEPT !.raised = "KeyError"]

\* lines 564-568: a timeline without rates removes the link from the cached list
\* (the list the for loop runs over), another one is appended to the result
Finish(t, timeline_link) ==
    IF AllNoRates(timeline_link)
        THEN [t EXCEPT !.links = RemoveFirst(@, t.links[t.i]), !.i = @ + 1]
        ELSE [t EXCEPT !.timeline_links = Append(@, timeline_link), !.i = @ + 1]

\* lines 557-563, with the samples of the target interface at hand
TargetRates(t, link, tmp_rates, tmp_states, target_rates) ==
    IF target_rates # <<>> /\ link.target.node \notin DOMAIN tmp_states THEN Raise(t)
    ELSE Finish([t EXCEPT !.tmp_rates = tmp_rates, !.tmp_states = tmp_states],
                TargetSnapshots(link, target_rates, 1))

\* lines 550-557, the target's data fetched
TargetTimeline(t, link, tmp_rates, tmp_states) ==
    IF link.target.node \notin DOMAIN tmp_rates THEN Raise(t)
    ELSE TargetRates(t, link, tmp_rates, tmp_states,
                     DictGet(tmp_rates[link.target.node], link.target.interface, <<>>))

\* lines 545-556: without any rate the timeline is built again from the target side
SourceDone(t, timeline_link) ==
    IF ~AllNoRates(timeline_link) THEN Finish(t, timeline_link)
    ELSE IF timeline_link[Len(timeline_link)].target.node \in DOMAIN t.tmp_rates
        THEN TargetTimeline(t, timeline_link[Len(timeline_link)], t.tmp_rates, t.tmp_states)
    ELSE TargetTimeline(t, timeline_link[Len(timeline_link)],
             DictUpdate(t.tmp_rates,
                 HistoricData(h_rates, <<timeline_link[Len(timeline_link)].target.node>>)),
             DictUpdate(t.tmp_states,
                 HistoricData(h_states, <<timeline_link[Len(timeline_link)].target.node>>)))

\* lines 530-542: the missing list is padded with None, the snapshots are built
SourceTimeline(t, link_rates, link_states) ==
    IF link_rates = <<>> /\ link_states = <<>> THEN Skip(t)
    ELSE SourceDone(t, Snapshots(t.links[t.i],
             IF link_rates = <<>> THEN Repeat(NoRate, Len(link_states)) ELSE link_rates,
             IF link_states = <<>> THEN Repeat(None, Len(link_rates)) ELSE link_states, 1))

\* lines 523-568: one round of the for loop
TimelineRound(t) ==
    IF t.links[t.i].source.node \notin DOMAIN t.tmp_rates THEN Skip(t)
    ELSE IF t.links[t.i].source.node \notin DOMAIN t.tmp_states THEN Raise(t)
    ELSE SourceTimeline(t,
             DictGet(t.tmp_rates[t.links[t.i].source.node], t.links[t.i].source.interface, <<>>),
             DictGet(t.tmp_states[t.links[t.i].source.node], t.links[t.i].source.interface, <<>>))

RECURSIVE TimelineLoop(_)
\* for link in links, lines 523-568
TimelineLoop(t) ==
    IF t.raised # "none" \/ t.i > Len(t.links) THEN t ELSE TimelineLoop(TimelineRound(t))

\* lines 513-569 on the list the cache handed over
RatesTimeline(links) ==
    TimelineLoop(Timeline(links, 1, HistoricData(h_rates, SourceNodes(links)),
                          HistoricData(h_states, SourceNodes(links)), <<>>, "none"))

R1 == Rate("in1", "out1", "bw1")
R2 == Rate("in2", "out2", "bw2")
HistoricRatePool == {<<>>, <<R1>>, <<R1, R2>>}
HistoricStatePool == {<<>>, <<Up, Up>>}

\* the interfaces of the topology
EnrichInterfaces ==
    UNION {{<<n, i>> : i \in DOMAIN EnrichDescriptions[n]} : n \in DOMAIN EnrichDescriptions}

TimelineInit ==
    /\ EnrichInit
    /\ \E samples \in [EnrichInterfaces -> HistoricRatePool] :
          h_rates = [n \in DOMAIN EnrichDescriptions |->
                        [i \in DOMAIN EnrichDescriptions[n] |-> samples[<<n, i>>]]]
    /\ \E samples \in [EnrichInterfaces -> HistoricStatePool] :
          h_states = [n \in DOMAIN EnrichDescriptions |->
                         [i \in DOMAIN EnrichDescriptions[n] |-> samples[<<n, i>>]]]

TimelineFrame ==
    UNCHANGED <<cacheVars, mergeVars, verifyVars, linkVars, parseVars, timelineVars,
                backendVars, d_desc, x_op, x_links, x_nodes, x_raised>>

\* what the call leaves behind
TimelineReturn(t) ==
    /\ e_cache' = <<t.links>>
    /\ e_result' = IF t.raised = "none" THEN t.timeline_links ELSE <<>>
    /\ e_raised' = t.raised

\* get_rates_timeline when the cache holds a fresh, non-empty list
GetRatesTimelineCached ==
    /\ ~Expired
    /\ e_op' = "get_rates_timeline"
    /\ self_nodes' = GetNodes
    /\ TimelineReturn(RatesTimeline(e_cache[1]))
    /\ TimelineFrame
    /\ UNCHANGED <<verification_errors, e_rates, e_states, e_stamp, e_changes>>

\* the cache ran get_links_between and stored its result r
TimelineProduced(r) ==
    /\ verification_errors' = r.errors
    /\ IF r.raised # "none"
          THEN /\ e_raised' = r.raised
               /\ e_result' = <<>>
               /\ UNCHANGED <<e_cache, e_stamp>>
          ELSE /\ e_stamp' = "fresh"
               /\ TimelineReturn(RatesTimeline(NewLinks(r)))

\* get_rates_timeline when the cache has no list, an empty one or an old one
GetRatesTimelineProducing ==
    /\ Expired
    /\ e_op' = "get_rates_timeline"
    /\ self_nodes' = GetNodes
    /\ TimelineProduced(GetLinksBetween(EnrichNodeList, EnrichSkipSelf, verification_errors))
    /\ TimelineFrame
    /\ UNCHANGED <<e_rates, e_states, e_changes>>

TimelineNext ==
    \/ GetRatesCached
    \/ GetRatesProducing
    \/ HourPasses
    \/ GetRatesTimelineCached
    \/ GetRatesTimelineProducing

(***************************************************************************)
(* get_rates when the endpoints of a link differ in state                  *)
(***************************************************************************)
Down == "down"
\* the backend holds a last Rate for some interfaces and a last State for each
StateInit ==
    /\ d_desc = <<EnrichDescriptions>>
    /\ verification_errors = {}
    /\ self_nodes = EmptyDict
    /\ x_op = <<"none">>
    /\ x_links = <<>>
    /\ x_nodes = {}
    /\ x_raised = "none"
    /\ \E held \in SUBSET EnrichInterfaces :
          e_rates = [n \in DOMAIN EnrichDescriptions |->
                        [i \in {j \in DOMAIN EnrichDescriptions[n] : <<n, j>> \in held} |-> R1]]
    /\ \E states \in [EnrichInterfaces -> {Up, Down}] :
          e_states = [n \in DOMAIN EnrichDescriptions |->
                         [i \in DOMAIN EnrichDescriptions[n] |-> states[<<n, i>>]]]
    /\ e_cache = <<>>
    /\ e_stamp = "none"
    /\ e_changes = 0
    /\ e_op = "none"
    /\ e_result = <<>>
    /\ e_raised = "none"

StateNext == GetRatesCached \/ GetRatesProducing \/ HourPasses

(***************************************************************************)
(* Link objects as members of a set (link.py)                              *)
(***************************************************************************)
\* set.add(link): an element is already held when one with the same hash is equal
SetHolds(set, link) == \E held \in set : LinkHash(held) = LinkHash(link) /\ LinkEq(held, link)
SetAdd(set, link) == IF SetHolds(set, link) THEN set ELSE set \cup {link}

LinkNodes == {"node-a", "node-b"}
LinkInterfaceNames == {"Te1/1", "Te2/1"}
LinkDescriptions == {"desc", ""}
LinkInterfaces ==
    {Interface(n, i, d) : n \in LinkNodes, i \in LinkInterfaceNames, d \in LinkDescriptions}

LinkInit ==
    /\ k_a \in LinkInterfaces
    /\ k_b \in LinkInterfaces
    /\ k_set = {}
    /\ k_added = {}

earlierVars == <<cacheVars, mergeVars, verifyVars, matchVars, enrichVars>>

LinkFrame == UNCHANGED <<earlierVars, parseVars, timelineVars, backendVars>>

\* links.add(Link(a, b))
AddForward ==
    /\ "ab" \notin k_added
    /\ k_set' = SetAdd(k_set, Link(k_a, k_b))
    /\ k_added' = k_added \cup {"ab"}
    /\ UNCHANGED <<k_a, k_b>>
    /\ LinkFrame

\* links.add(Link(b, a))
AddReversed ==
    /\ "ba" \notin k_added
    /\ k_set' = SetAdd(k_set, Link(k_b, k_a))
    /\ k_added' = k_added \cup {"ba"}
    /\ UNCHANGED <<k_a, k_b>>
    /\ LinkFrame

LinkNext == AddForward \/ AddReversed

(***************************************************************************)
(* _parse_description called on descriptions with and without a year       *)
(***************************************************************************)
MaxTokens == 3
ParseTokenPool == {"DC", "BAD", "node-a", "Te1/1", "2020"}
\* the first and the last year that line 118 takes for an installation date
YearTokens == {"2012", "2026"}

\* tokens with one more token put in after the pos-th
InsertAt(tokens, pos, token) ==
    SubSeq(tokens, 1, pos) \o <<token>> \o SubSeq(tokens, pos + 1, Len(tokens))

\* the description whose segments are the tokens
Description(tokens) == JoinWith(tokens, "_")

ParseInit ==
    /\ p_tokens \in UNION {[1..n -> ParseTokenPool] : n \in 1..MaxTokens}
    /\ p_year \in YearTokens
    /\ p_pos \in 1..Len(p_tokens)
    /\ p_parsed = <<>>
    /\ p_dated = <<>>

ParseFrame == UNCHANGED <<earlierVars, linkVars, timelineVars, backendVars>>

\* a caller runs _parse_description(description)
ParseCall ==
    /\ p_parsed = <<>>
    /\ p_parsed' = <<ParseTokens(Description(p_tokens))>>
    /\ UNCHANGED <<p_tokens, p_year, p_pos, p_dated>>
    /\ ParseFrame

\* a caller runs _parse_description on the description with the year token in it
ParseDatedCall ==
    /\ p_dated = <<>>
    /\ p_dated' = <<ParseTokens(Description(InsertAt(p_tokens, p_pos, p_year)))>>
    /\ UNCHANGED <<p_tokens, p_year, p_pos, p_parsed>>
    /\ ParseFrame

ParseNext == ParseCall \/ ParseDatedCall

(***************************************************************************)
(* InfluxClient._parse_rates and _parse_optics (datasources/influx.py)     *)
(***************************************************************************)
\* a field of a point: <<>> where InfluxDB returned null, <<n>> otherwise
Null == <<>>
\* a point of a rate query
RatePoint(time, in_r, out_r, bw) == [time |-> time, in_r |-> in_r, out_r |-> out_r, bw |-> bw]
\* a point of an optics query
OpticPoint(time, rx, tx, lbc) == [time |-> time, rx |-> rx, tx |-> tx, lbc |-> lbc]

\* None * 1000 or None / 100 raises TypeError
RateRaises(point) == ~(point.in_r # Null /\ point.out_r # Null /\ point.bw # Null)
OpticRaises(point) == ~(point.rx # Null /\ point.tx # Null /\ point.lbc # Null)

\* lines 336-341: Rate(in * 1000, out * 1000, bw * 1000, datasource, time)
PointRate(point) ==
    [in_r |-> point.in_r[1] * 1000, out_r |-> point.out_r[1] * 1000,
     bw |-> point.bw[1] * 1000, datetime |-> point.time]
\* lines 432-445: Optic(rx / 100, tx / 100, lbc / 100, datasource, time), divided
\* by 10 again when lbc is above 100 (the model's values divide exactly)
PointOptic(point) ==
    IF point.lbc[1] \div 100 > 100
        THEN [rx |-> (point.rx[1] \div 100) \div 10, tx |-> (point.tx[1] \div 100) \div 10,
              lbc |-> (point.lbc[1] \div 100) \div 10, datetime |-> point.time]
        ELSE [rx |-> point.rx[1] \div 100, tx |-> point.tx[1] \div 100,
              lbc |-> point.lbc[1] \div 100, datetime |-> point.time]

RECURSIVE RatePoints(_, _, _)
\* lines 332-341: the loop over the points of one result; a TypeError leaves
\* the loop with the list as it is (line 342)
RatePoints(points, k, list) ==
    IF k > Len(points) THEN list
    ELSE IF points[k].bw = Null
        THEN Append(list, Null)
    ELSE IF RateRaises(points[k])
        THEN list
    ELSE RatePoints(points, k + 1, Append(list, <<PointRate(points[k])>>))

RECURSIVE OpticPoints(_, _, _)
\* lines 427-446
OpticPoints(points, k, list) ==
    IF k > Len(points) THEN list
    ELSE IF points[k].lbc = Null
        THEN OpticPoints(points, k + 1, Append(list, Null))
    ELSE IF OpticRaises(points[k])
        THEN list
    ELSE OpticPoints(points, k + 1, Append(list, <<PointOptic(points[k])>>))

\* where the last "Optics" of a series name ends, 0 when there is none
LastOptics(name) ==
    IF Contains("Optics", name)
        THEN CHOOSE i \in 6..Len(name) :
                /\ SubSeq(name, i - 5, i) = "Optics"
                /\ \A j \in (i + 1)..Len(name) : SubSeq(name, j - 5, j) # "Optics"
        ELSE 0
\* line 404: name.split("Optics")[-1]
OpticName(name) == SubSeq(name, LastOptics(name) + 1, Len(name))

\* lines 317-343: one result of _parse_rates
RateResult(rates, result) ==
    IF result.single
        THEN IF RateRaises(result.points) THEN rates
             ELSE [rates EXCEPT ![result.name] =
                      <<[in_r |-> result.points.in_r[1] * 1000,
                         out_r |-> result.points.out_r[1] * 1000,
                         bw |-> result.points.bw[1] * 1000, datetime |-> "now"]>>]
        ELSE [rates EXCEPT ![result.name] = <<RatePoints(result.points, 1, <<>>)>>]

\* lines 401-448: one result of _parse_optics
OpticResult(optics, result) ==
    IF result.single
        THEN IF OpticRaises(result.points) THEN optics
             ELSE [optics EXCEPT ![OpticName(result.name)] =
                      <<[PointOptic(result.points) EXCEPT !.datetime = "now"]>>]
        ELSE [optics EXCEPT ![OpticName(result.name)] = <<OpticPoints(result.points, 1, <<>>)>>]

\* the interfaces of the node
InfluxInterfaces == {"0/0/0/1", "0/0/0/2"}
NothingParsed == [name \in InfluxInterfaces |-> <<>>]

RECURSIVE ParseRates(_, _, _)
\* _parse_rates for one node: the loop over query_data[node]
ParseRates(query_data, r, rates) ==
    IF r > Len(query_data) THEN rates
    ELSE ParseRates(query_data, r + 1, RateResult(rates, query_data[r]))

RECURSIVE ParseOptics(_, _, _)
\* _parse_optics for one node
ParseOptics(query_data, r, optics) ==
    IF r > Len(query_data) THEN optics
    ELSE ParseOptics(query_data, r + 1, OpticResult(optics, query_data[r]))

\* the time buckets of a historic query
MaxBuckets == 3
\* what a bucket holds: nothing, or one of two samples
RateFields == {<<Null, Null, Null>>, <<<<2>>, <<3>>, <<1>>>>, <<<<4>>, <<5>>, <<10>>>>}
OpticFields == {<<Null, Null, Null>>, <<<<-3000>>, <<-2000>>, <<5000>>>>,
                <<<<-30000>>, <<-20000>>, <<20000>>>>}
\* the points of a historic query: one per bucket, in time order
Buckets(kind, fields) ==
    [k \in 1..Len(fields) |->
        IF kind = "rates" THEN RatePoint(k, fields[k][1], fields[k][2], fields[k][3])
        ELSE OpticPoint(k, fields[k][1], fields[k][2], fields[k][3])]
\* the single point of a query without GROUP BY time
Single(kind, f) ==
    IF kind = "rates" THEN RatePoint("none", f[1], f[2], f[3])
    ELSE OpticPoint("none", f[1], f[2], f[3])
Fields(kind) == IF kind = "rates" THEN RateFields ELSE OpticFields
SeriesName(kind, interface) == IF kind = "rates" THEN interface ELSE "Optics" \o interface

InfluxInit ==
    /\ i_kind \in {"rates", "optics"}
    /\ \E n \in 0..MaxBuckets : \E fields \in [1..n -> Fields(i_kind)] :
       \E single \in BOOLEAN : \E f \in Fields(i_kind) :
          i_query = << [name |-> SeriesName(i_kind, "0/0/0/1"), single |-> FALSE,
                        points |-> Buckets(i_kind, fields)],
                       [name |-> SeriesName(i_kind, "0/0/0/2"), single |-> single,
                        points |-> IF single THEN Single(i_kind, f)
                                   ELSE Buckets(i_kind, <<f>>)] >>
    /\ i_op = "none"
    /\ i_parsed = NothingParsed

InfluxFrame ==
    UNCHANGED <<earlierVars, linkVars, parseVars, timelineVars, resolveVars, snmpVars,
                pollVars, unitVars>>

\* get_rates / get_historic_rates hand the answer of the query to _parse_rates
ParseRatesCall ==
    /\ i_op = "none"
    /\ i_kind = "rates"
    /\ i_op' = "_parse_rates"
    /\ i_parsed' = ParseRates(i_query, 1, NothingParsed)
    /\ UNCHANGED <<i_kind, i_query>>
    /\ InfluxFrame

\* get_optics / get_historic_optics hand the answer of the query to _parse_optics
ParseOpticsCall ==
    /\ i_op = "none"
    /\ i_kind = "optics"
    /\ i_op' = "_parse_optics"
    /\ i_parsed' = ParseOptics(i_query, 1, NothingParsed)
    /\ UNCHANGED <<i_kind, i_query>>
    /\ InfluxFrame

InfluxNext == ParseRatesCall \/ ParseOpticsCall

(***************************************************************************)
(* Node resolution: lookup_node in every backend, merged by                *)
(* merge_datasources                                                       *)
(***************************************************************************)
\* the backends of self.datasources before one more is configured
MaxDatasources == 2
ResolveNodes == {"node-a", "node-a1", "node-b"}
ResolveRequests == {<<>>, <<"node">>, <<"node-a">>, <<"node-a", "node-b">>, <<"node-c">>}

\* a backend that knows the nodes names, with its own payload for each
Datasource(tag, names) == [n \in names |-> <<tag, n>>]
\* the nodes some backend of the list knows
KnownNodes(datasources) == UNION {DOMAIN datasources[b] : b \in 1..Len(datasources)}

\* merge_datasources('get_descriptions', args=request): every backend resolves the
\* request against its own nodes, the results are merged in configuration order
Resolve(datasources, request) ==
    MergeAll([b \in 1..Len(datasources) |-> GetDescriptions(datasources[b], request)],
             EmptyDict, 1)

ResolveInit ==
    /\ \E n \in 1..MaxDatasources : \E names \in [1..n -> SUBSET ResolveNodes] :
          r_datasources = [b \in 1..n |-> Datasource(b, names[b])]
    /\ \E names \in SUBSET ResolveNodes :
          /\ names \ KnownNodes(r_datasources) # {}
          /\ r_extra = Datasource("extra", names)
    /\ r_at \in 0..Len(r_datasources)
    /\ r_request \in ResolveRequests
    /\ r_base = <<>>
    /\ r_more = <<>>

ResolveFrame ==
    UNCHANGED <<earlierVars, linkVars, parseVars, timelineVars, influxVars, snmpVars,
                pollVars, unitVars>>

\* the call with the backends as configured
ResolveCall ==
    /\ r_base = <<>>
    /\ r_base' = <<Resolve(r_datasources, r_request)>>
    /\ UNCHANGED <<r_datasources, r_extra, r_at, r_request, r_more>>
    /\ ResolveFrame

\* the same call with one more backend in self.datasources
ResolveWithExtraCall ==
    /\ r_more = <<>>
    /\ r_more' = <<Resolve(InsertAt(r_datasources, r_at, r_extra), r_request)>>
    /\ UNCHANGED <<r_datasources, r_extra, r_at, r_request, r_base>>
    /\ ResolveFrame

ResolveNext == ResolveCall \/ ResolveWithExtraCall

(***************************************************************************)
(* SNMPPoller: rates from counters (datasources/snmp.py)                   *)
(***************************************************************************)
\* time is counted in half seconds
MaxSnmpTime == 8
\* SNMP_INTERVAL, the timeout of _rate_cache: 2 seconds
SnmpInterval == 4
\* interface_oids[node]: the interface names by OID, as _map_interfaces left them
InterfaceOids == [oid \in {"1", "2"} |-> IF oid = "1" THEN "Te1/1" ELSE "Te1/2"]
\* the OIDs a bulk query can answer with: the interfaces and one that is not mapped
Oids == {"1", "2", "9"}
\* the OIDs that answer a query
Answers == {{}, {"1"}, Oids}
OidOf(name) == CHOOSE oid \in DOMAIN InterfaceOids : InterfaceOids[oid] = name

\* the octets the device counted on an interface
Octets(direction, oid, traffic) ==
    (IF direction = "in" THEN 100 ELSE 200) * traffic + (IF oid = "1" THEN 1000 ELSE 5000)
\* _query_multiple: the counters of the OIDs that answered
Reading(direction, answering, traffic) ==
    [oid \in answering |-> Octets(direction, oid, traffic)]

\* prev_dict[node_name]: the counters by interface name and the 'timestamp'
NoCounters == [counters |-> EmptyDict, timestamp |-> <<>>]
\* lines 440-441
PrevOf(prev) == IF prev = <<>> THEN NoCounters ELSE prev[1]
\* line 442: int_name in prev_dict[node_name] and 'timestamp' in prev_dict[node_name]
HasPrior(old, name) == name \in DOMAIN old.counters /\ old.timestamp # <<>>
\* line 446: time_delta.total_seconds() < 1
SubSecond(old, current_time) == current_time - old.timestamp[1] < 2
\* line 437: the OIDs of the reading that are mapped to an interface
Matched(reading) == DOMAIN reading \cap DOMAIN InterfaceOids

\* line 448: byte_delta * 8 / time_delta.total_seconds(), kept as a fraction
ByteRate(byte_delta, time_delta) == [bits |-> byte_delta * 8, halfseconds |-> time_delta]

\* lines 436-448: the rates dict
ComputedRates(old, reading, current_time) ==
    [name \in {InterfaceOids[oid] : oid \in {o \in Matched(reading) :
                   /\ HasPrior(old, InterfaceOids[o])
                   /\ ~SubSecond(old, current_time)}} |->
        ByteRate(reading[OidOf(name)] - old.counters[name], current_time - old.timestamp[1])]
\* line 450: the interfaces whose counter is saved (the continue at 447 skips it)
Saved(old, reading, current_time) ==
    {InterfaceOids[oid] : oid \in {o \in Matched(reading) :
        ~(HasPrior(old, InterfaceOids[o]) /\ SubSecond(old, current_time))}}
\* lines 450-452: prev_dict[node_name] after the call
SavedCounters(old, reading, current_time) ==
    [counters |-> [name \in DOMAIN old.counters \cup Saved(old, reading, current_time) |->
                      IF name \in Saved(old, reading, current_time)
                          THEN reading[OidOf(name)] ELSE old.counters[name]],
     timestamp |-> <<current_time>>]

\* _compute_rates: the rates, prev_dict[node_name] as it leaves it, and the KeyError of
\* line 452 when no entry was made for the node
ComputeRates(prev, reading, current_time) ==
    IF prev = <<>> /\ Matched(reading) = {}
        THEN [rates |-> EmptyDict, prev |-> prev, raised |-> "KeyError"]
        ELSE [rates |-> ComputedRates(PrevOf(prev), reading, current_time),
              prev |-> <<SavedCounters(PrevOf(prev), reading, current_time)>>,
              raised |-> "none"]

\* int(rate) of a fraction that is not negative
IntRate(rate) == (rate.bits * 2) \div rate.halfseconds
\* lines 491-497: the Rate objects, for the interfaces of in_rates
SnmpRates(in_rates, out_rates) ==
    [name \in DOMAIN in_rates |-> Rate(IntRate(in_rates[name]), IntRate(out_rates[name]), "bw")]

\* Cache.expired for _rate_cache and the node
RatesExpired ==
    ~(/\ s_stamp # <<>>
      /\ s_data # <<>>
      /\ s_data[1] # EmptyDict
      /\ ~(s_now - SnmpInterval > s_stamp[1]))

SnmpInit ==
    /\ s_now = 0
    /\ s_traffic = 0
    /\ s_prev_in = <<>>
    /\ s_prev_out = <<>>
    /\ s_data = <<>>
    /\ s_stamp = <<>>
    /\ s_writer = "none"
    /\ s_read_at = EmptyDict
    /\ s_last = [called |-> FALSE]

SnmpFrame ==
    UNCHANGED <<earlierVars, linkVars, parseVars, timelineVars, influxVars, resolveVars,
                pollVars, unitVars>>

\* time passes and the device counts traffic
Elapse(halfseconds) ==
    /\ s_now + halfseconds <= MaxSnmpTime
    /\ s_now' = s_now + halfseconds
    /\ s_traffic' = s_traffic + 3 * halfseconds
    /\ UNCHANGED <<s_prev_in, s_prev_out, s_data, s_stamp, s_writer, s_read_at, s_last>>
    /\ SnmpFrame

\* _retrieve_rates when both queries answered
Retrieved(caller, in_bytes, out_bytes, in_rates, out_rates) ==
    /\ s_prev_in' = in_rates.prev
    /\ s_prev_out' = IF in_rates.raised = "none" THEN out_rates.prev ELSE s_prev_out
    /\ s_writer' = IF in_rates.raised = "none" THEN caller ELSE s_writer
    /\ s_last' = [called |-> TRUE, prev |-> PrevOf(s_prev_in), read_at |-> s_read_at,
                  reading |-> in_bytes, time |-> s_now, rates |-> in_rates.rates]
    /\ s_read_at' = IF in_rates.raised # "none" THEN s_read_at
                    ELSE [name \in DOMAIN s_read_at \cup Saved(PrevOf(s_prev_in), in_bytes, s_now) |->
                             IF name \in Saved(PrevOf(s_prev_in), in_bytes, s_now)
                                 THEN s_now ELSE s_read_at[name]]
    /\ IF in_rates.raised = "none" /\ out_rates.raised = "none"
          THEN /\ s_data' = <<SnmpRates(in_rates.rates, out_rates.rates)>>
               /\ s_stamp' = <<s_now>>
          ELSE UNCHANGED <<s_data, s_stamp>>

\* poller.get_rates(node): _rate_cache.get runs _retrieve_rates in the caller's thread
\* when the cache has expired; the caller is the poll loop (main_loop, line 277) or a
\* request (SNMPClient.get_rates, line 108)
SnmpGetRates(caller, answering) ==
    /\ RatesExpired
    /\ Retrieved(caller,
                 Reading("in", answering, s_traffic), Reading("out", answering, s_traffic),
                 ComputeRates(s_prev_in, Reading("in", answering, s_traffic), s_now),
                 ComputeRates(s_prev_out, Reading("out", answering, s_traffic), s_now))
    /\ UNCHANGED <<s_now, s_traffic>>
    /\ SnmpFrame

\* _retrieve_rates when a query timed out (EasySNMPTimeoutError): {} is cached
SnmpTimeout(caller) ==
    /\ RatesExpired
    /\ s_data' = <<EmptyDict>>
    /\ s_stamp' = <<s_now>>
    /\ UNCHANGED <<s_now, s_traffic, s_prev_in, s_prev_out, s_writer, s_read_at, s_last>>
    /\ SnmpFrame

SnmpNext ==
    \/ \E halfseconds \in {1, 2, 5} : Elapse(halfseconds)
    \/ \E caller \in {"poll", "request"}, answering \in Answers :
          SnmpGetRates(caller, answering)
    \/ \E caller \in {"poll", "request"} : SnmpTimeout(caller)

(***************************************************************************)
(* SNMPPoller: host setup and the poll loop (snmp.py)                      *)
(***************************************************************************)
SnmpHosts == {"r1", "r2"}
\* how a device behaves: it answers, it accepts a session but does not answer the
\* device-name query, or no session can be made for it
Behaviours == {"ok", "silent", "unresolved"}
MaxHostChanges == 2
PollWindow == 12
\* main_loop: failed_counter >= 10
RetryEvery == 10

PollFrame ==
    UNCHANGED <<earlierVars, linkVars, parseVars, timelineVars, influxVars, resolveVars,
                snmpVars, unitVars>>

\* _setup_host(host, community): the tables it leaves and how it ended.  When no
\* session could be made, _set_device_name raises ValueError and the handler's
\* del self.sessions[host] raises KeyError out of _setup_host.
SetupHost(host, answers, held, names, failed) ==
    IF answers[host] = "ok"
        THEN [sessions |-> held \cup {host}, hostnames |-> names \cup {host},
              failed_hosts |-> failed, raised |-> "none"]
        ELSE IF answers[host] = "silent"
            THEN [sessions |-> held \ {host}, hostnames |-> names,
                  failed_hosts |-> failed \cup {host}, raised |-> "none"]
            ELSE [sessions |-> held \ {host}, hostnames |-> names,
                  failed_hosts |-> failed \cup {host},
                  raised |-> IF host \in held THEN "none" ELSE "KeyError"]

\* __init__: _setup_host for every host of SNMP_HOSTS, exceptions swallowed
RECURSIVE SetupAll(_, _, _)
SetupAll(hosts, answers, tables) ==
    IF hosts = {} THEN tables
    ELSE LET host == CHOOSE h \in hosts : TRUE
         IN  SetupAll(hosts \ {host}, answers,
                      SetupHost(host, answers, tables.sessions, tables.hostnames,
                                tables.failed_hosts))

PollInit ==
    /\ n_answers \in [SnmpHosts -> Behaviours]
    /\ n_changes = 0
    /\ LET tables == SetupAll(SnmpHosts, n_answers,
                              [sessions |-> {}, hostnames |-> {}, failed_hosts |-> {}])
       IN  /\ sessions = tables.sessions
           /\ hostnames = tables.hostnames
           /\ failed_hosts = tables.failed_hosts
    /\ failed_counter = 0
    /\ n_cycle = 0
    /\ n_polled = {}
    /\ n_loop = "running"

\* a device starts or stops answering
DeviceChanges(host, behaviour) ==
    /\ n_changes < MaxHostChanges
    /\ behaviour # n_answers[host]
    /\ n_answers' = [n_answers EXCEPT ![host] = behaviour]
    /\ n_changes' = n_changes + 1
    /\ UNCHANGED <<sessions, hostnames, failed_hosts, failed_counter, n_cycle, n_polled,
                   n_loop>>
    /\ PollFrame

\* the failed hosts whose _setup_host returns: the retry loop removes the first of
\* them from the set it iterates over, and the iteration raises RuntimeError
Returning == {host \in failed_hosts : n_answers[host] # "unresolved"}

\* one pass of the body of main_loop's while True
PollCycle ==
    /\ n_loop = "running"
    /\ n_cycle' = (n_cycle + 1) % PollWindow
    /\ IF failed_hosts # {} /\ failed_counter >= RetryEvery
          THEN /\ failed_counter' = 0
               /\ IF Returning = {}
                     THEN /\ n_polled' = hostnames
                          /\ UNCHANGED <<sessions, hostnames, failed_hosts, n_loop>>
                     ELSE \E host \in Returning :
                             LET tables == SetupHost(host, n_answers, sessions, hostnames,
                                                     failed_hosts)
                             IN  /\ sessions' = tables.sessions
                                 /\ hostnames' = tables.hostnames
                                 /\ failed_hosts' = tables.failed_hosts \ {host}
                                 /\ n_loop' = "ended"
                                 /\ UNCHANGED n_polled
          ELSE /\ n_polled' = hostnames
               /\ UNCHANGED <<sessions, hostnames, failed_hosts, failed_counter, n_loop>>
    /\ UNCHANGED <<n_answers, n_changes>>
    /\ PollFrame

PollNext ==
    \/ \E host \in SnmpHosts, behaviour \in Behaviours : DeviceChanges(host, behaviour)
    \/ PollCycle

(***************************************************************************)
(* Functions called on their own                                           *)
(***************************************************************************)
UnitFrame ==
    UNCHANGED <<earlierVars, linkVars, parseVars, timelineVars, influxVars, resolveVars,
                snmpVars, pollVars>>
\* how a call ended
CallReturned(value) == [raised |-> "none", value |-> value]
CallRaised(exception) == [raised |-> exception, value |-> <<>>]

\* ---- the historic calls of the SNMP backend (SNMPClient, DataSource) ----
HistoricCalls ==
    {"get_historic_states", "get_historic_rates", "get_historic_optics", "get_historic_counters"}
HistoricNodeLists == {<<>>, <<"node">>, <<"node-a">>, <<"node-a", "node-b">>, <<"node-c">>}
\* the ends of the time windows
MaxWindow == 3
\* SNMPClient overrides three of the calls with 'return {}'; get_historic_counters is
\* inherited from DataSource and raises
SnmpHistoric(call, node_names, starttime, endtime) ==
    IF call = "get_historic_counters" THEN CallRaised("NotImplementedError")
    ELSE CallReturned(EmptyDict)
\* the call behind lookup_node, on a client whose poller knows the nodes hosts
SnmpHistoricCall(call, hosts, nodes, starttime, endtime) ==
    SnmpHistoric(call, SetToSeq(LookupNode(hosts, nodes)), starttime, endtime)

HistoricInit ==
    /\ u_call = "none"
    /\ \E nodes \in HistoricNodeLists : \E starttime \in 0..MaxWindow :
       \E endtime \in starttime..MaxWindow :
          u_arg = [nodes |-> nodes, starttime |-> starttime, endtime |-> endtime]
    /\ u_result = <<>>

HistoricCall(call) ==
    /\ u_call = "none"
    /\ u_call' = call
    /\ u_result' = <<SnmpHistoricCall(call, {"node-a", "node-b"}, u_arg.nodes,
                                      u_arg.starttime, u_arg.endtime)>>
    /\ UNCHANGED u_arg
    /\ UnitFrame

HistoricNext == \E call \in HistoricCalls : HistoricCall(call)

\* ---- InfluxClient._rewrite_state and _parse_states ----
\* what the 'state' field of a point can hold; None where the field is missing
VendorStates ==
    {"im-state-up", "im-state-down", "im-state-admin-down", "im-state-err-disable",
     "im-state-not-ready", None}
\* _rewrite_state: no branch matches, the function returns None
RewriteState(state) ==
    CASE state = "im-state-up" -> "up"
      [] state = "im-state-down" -> "down"
      [] state = "im-state-admin-down" -> "shut"
      [] state = "im-state-err-disable" -> "errdisable"
      [] OTHER -> None
\* State(state, datasource, datetime)
StateSample(state, datetime) == [state |-> state, datetime |-> datetime]
\* lines 250-257: the list of one result; <<>> where the code appends None
StatePoints(points) ==
    [k \in 1..Len(points) |->
        IF RewriteState(points[k]) = None THEN <<>>
        ELSE <<StateSample(RewriteState(points[k]), k)>>]
\* lines 241-257: what _parse_states stores for the interface of one result
ParseStates(single, points) ==
    IF single THEN StateSample(RewriteState(points), "now") ELSE StatePoints(points)

\* the most points a historic state query answers with
MaxStatePoints == 3

RewriteInit ==
    /\ u_call = "none"
    /\ \/ \E state \in VendorStates : u_arg = [single |-> TRUE, points |-> state]
       \/ \E n \in 0..MaxStatePoints : \E points \in [1..n -> VendorStates] :
             u_arg = [single |-> FALSE, points |-> points]
    /\ u_result = <<>>

\* get_states / get_historic_states hand the answer of the query to _parse_states
ParseStatesCall ==
    /\ u_call = "none"
    /\ u_call' = "_parse_states"
    /\ u_result' = <<ParseStates(u_arg.single, u_arg.points)>>
    /\ UNCHANGED u_arg
    /\ UnitFrame

RewriteNext == ParseStatesCall

\* ---- Rate.reverse (datasource.py) ----
\* the namedtuple Rate
RateTuple(in_r, out_r, bw, datasource, datetime) ==
    [in_r |-> in_r, out_r |-> out_r, bw |-> bw, datasource |-> datasource, datetime |-> datetime]
RateReverseUnstamped(rate) == RateTuple(rate.out_r, rate.in_r, rate.bw, rate.datasource, 0)
\* Rate.reverse
RateReverse(rate) == RateTuple(rate.out_r, rate.in_r, rate.bw, rate.datasource, rate.datetime)

\* the largest timestamp of a Rate
MaxStamp == 3
RateTuples ==
    {RateTuple(in_r, out_r, bw, datasource, datetime) :
        in_r \in {0, 10, 20}, out_r \in {0, 10, 20}, bw \in {100, 1000},
        datasource \in {"fake", "snmp"}, datetime \in 1..MaxStamp}

ReverseInit ==
    /\ u_call = "none"
    /\ u_arg \in RateTuples
    /\ u_result = <<>>

\* R.reverse()
ReverseCall ==
    /\ u_call = "none"
    /\ u_call' = "reverse"
    /\ u_result' = <<RateReverse(u_arg)>>
    /\ UNCHANGED u_arg
    /\ UnitFrame

\* R.reverse().reverse()
ReverseAgainCall ==
    /\ u_call = "reverse"
    /\ u_call' = "reverse.reverse"
    /\ u_result' = <<RateReverse(u_result[1])>>
    /\ UNCHANGED u_arg
    /\ UnitFrame

ReverseNext == ReverseCall \/ ReverseAgainCall

(***************************************************************************)
(* Specifications                                                          *)
(***************************************************************************)
CacheParked ==
    /\ c_data = [k \in Keys |-> None]
    /\ c_timestamp = [k \in Keys |-> <<>>]
    /\ c_cached = TRUE
    /\ now = 0
    /\ t_pc = [t \in Threads |-> "idle"]
    /\ t_op = [t \in Threads |-> None]
    /\ t_key = [t \in Threads |-> None]
    /\ t_ret = [t \in Threads |-> None]
    /\ t_ops = [t \in Threads |-> 0]
    /\ running = {}
    /\ invocations = [k \in Keys |-> 0]
    /\ waitExpired = FALSE

MergeParked ==
    /\ m_data = EmptyDict
    /\ m_status = EmptyDict
    /\ m_results = EmptyDict
    /\ m_order = <<>>
    /\ m_pc = "idle"
    /\ m_i = 0
    /\ m_joined = EmptyDict
    /\ m_nodes = EmptyDict

VerifyParked ==
    /\ v_local = NoInterface
    /\ v_remote = NoInterface
    /\ v_result = [kind |-> "idle", a |-> NoInterface, b |-> NoInterface]

MatchParked ==
    /\ d_desc = <<>>
    /\ verification_errors = {}
    /\ self_nodes = EmptyDict
    /\ x_op = <<"none">>
    /\ x_links = <<>>
    /\ x_nodes = {}
    /\ x_raised = "none"

EnrichParked ==
    /\ e_rates = EmptyDict
    /\ e_states = EmptyDict
    /\ e_cache = <<>>
    /\ e_stamp = "none"
    /\ e_changes = 0
    /\ e_op = "none"
    /\ e_result = <<>>
    /\ e_raised = "none"

LinkParked ==
    /\ k_a = NoInterface
    /\ k_b = NoInterface
    /\ k_set = {}
    /\ k_added = {}

\* the subsystems modelled after the enrichment calls, all parked
ParseParked ==
    /\ p_tokens = <<>>
    /\ p_year = ""
    /\ p_pos = 0
    /\ p_parsed = <<>>
    /\ p_dated = <<>>

TimelineParked ==
    /\ h_rates = EmptyDict
    /\ h_states = EmptyDict

InfluxParked ==
    /\ i_kind = "none"
    /\ i_query = <<>>
    /\ i_op = "none"
    /\ i_parsed = NothingParsed

ResolveParked ==
    /\ r_datasources = <<>>
    /\ r_extra = EmptyDict
    /\ r_at = 0
    /\ r_request = <<>>
    /\ r_base = <<>>
    /\ r_more = <<>>

SnmpParked ==
    /\ s_now = 0
    /\ s_traffic = 0
    /\ s_prev_in = <<>>
    /\ s_prev_out = <<>>
    /\ s_data = <<>>
    /\ s_stamp = <<>>
    /\ s_writer = "parked"
    /\ s_read_at = EmptyDict
    /\ s_last = [called |-> FALSE]

PollParked ==
    /\ n_answers = EmptyDict
    /\ n_changes = 0
    /\ sessions = {}
    /\ hostnames = {}
    /\ failed_hosts = {}
    /\ failed_counter = 0
    /\ n_cycle = 0
    /\ n_polled = {}
    /\ n_loop = "parked"

UnitParked ==
    /\ u_call = "parked"
    /\ u_arg = <<>>
    /\ u_result = <<>>

BackendParked == InfluxParked /\ ResolveParked /\ SnmpParked /\ PollParked /\ UnitParked

LaterParked == LinkParked /\ ParseParked /\ TimelineParked /\ BackendParked

CacheSpecInit ==
    CacheInit /\ MergeParked /\ VerifyParked /\ MatchParked /\ EnrichParked /\ LaterParked

CacheSpec == CacheSpecInit /\ [][CacheNext]_vars

MergeSpecInit ==
    MergeInit /\ CacheParked /\ VerifyParked /\ MatchParked /\ EnrichParked /\ LaterParked

MergeSpec == MergeSpecInit /\ [][MergeNext]_vars

VerifySpecInit ==
    VerifyInit /\ CacheParked /\ MergeParked /\ MatchParked /\ EnrichParked /\ LaterParked

VerifySpec == VerifySpecInit /\ [][VerifyNext]_vars

MatchSpecInit ==
    MatchInit /\ CacheParked /\ MergeParked /\ VerifyParked /\ EnrichParked /\ LaterParked

MatchSpec == MatchSpecInit /\ [][MatchNext]_vars

EnrichSpecInit == EnrichInit /\ CacheParked /\ MergeParked /\ VerifyParked /\ LaterParked

EnrichSpec == EnrichSpecInit /\ [][EnrichNext]_vars

\* the subsystems modelled up to the enrichment calls, all parked
EarlierParked == CacheParked /\ MergeParked /\ VerifyParked /\ MatchParked /\ EnrichParked

LinkSpecInit == LinkInit /\ EarlierParked /\ ParseParked /\ TimelineParked /\ BackendParked

LinkSpec == LinkSpecInit /\ [][LinkNext]_vars

ParseSpecInit == ParseInit /\ EarlierParked /\ LinkParked /\ TimelineParked /\ BackendParked

SessionSpecInit ==
    SessionInit /\ CacheParked /\ MergeParked /\ VerifyParked /\ EnrichParked /\ LaterParked

SessionSpec == SessionSpecInit /\ [][SessionNext]_vars

RemoteSpecInit ==
    RemoteInit /\ CacheParked /\ MergeParked /\ VerifyParked /\ EnrichParked /\ LaterParked

RemoteSpec == RemoteSpecInit /\ [][RemoteNext]_vars

TimelineSpecInit ==
    /\ TimelineInit
    /\ CacheParked /\ MergeParked /\ VerifyParked /\ LinkParked /\ ParseParked /\ BackendParked

TimelineSpec == TimelineSpecInit /\ [][TimelineNext]_vars

InfluxSpecInit ==
    /\ InfluxInit
    /\ EarlierParked /\ LinkParked /\ ParseParked /\ TimelineParked
    /\ ResolveParked /\ SnmpParked /\ PollParked /\ UnitParked

InfluxSpec == InfluxSpecInit /\ [][InfluxNext]_vars

ResolveSpecInit ==
    /\ ResolveInit
    /\ EarlierParked /\ LinkParked /\ ParseParked /\ TimelineParked
    /\ InfluxParked /\ SnmpParked /\ PollParked /\ UnitParked

ResolveSpec == ResolveSpecInit /\ [][ResolveNext]_vars

StateSpecInit == StateInit /\ CacheParked /\ MergeParked /\ VerifyParked /\ LaterParked

StateSpec == StateSpecInit /\ [][StateNext]_vars

SnmpSpecInit ==
    /\ SnmpInit
    /\ EarlierParked /\ LinkParked /\ ParseParked /\ TimelineParked
    /\ InfluxParked /\ ResolveParked /\ PollParked /\ UnitParked

SnmpSpec == SnmpSpecInit /\ [][SnmpNext]_vars

\* everything but the function called on its own
PairSpecInit ==
    PairInit /\ CacheParked /\ MergeParked /\ VerifyParked /\ EnrichParked /\ LaterParked

PairSpec == PairSpecInit /\ [][PairNext]_vars

PollSpecInit ==
    /\ PollInit
    /\ EarlierParked /\ LinkParked /\ ParseParked /\ TimelineParked
    /\ InfluxParked /\ ResolveParked /\ SnmpParked /\ UnitParked

PollSpec == PollSpecInit /\ [][PollNext]_vars

\* main_loop never returns on its own: every pass ends in asyncio.sleep and the next
\* pass follows
PollFairSpec == PollSpec /\ WF_vars(PollCycle)

AllButUnitParked ==
    /\ EarlierParked /\ LinkParked /\ ParseParked /\ TimelineParked
    /\ InfluxParked /\ ResolveParked /\ SnmpParked /\ PollParked

HistoricSpecInit == HistoricInit /\ AllButUnitParked

HistoricSpec == HistoricSpecInit /\ [][HistoricNext]_vars

RewriteSpecInit == RewriteInit /\ AllButUnitParked

RewriteSpec == RewriteSpecInit /\ [][RewriteNext]_vars

ReverseSpecInit == ReverseInit /\ AllButUnitParked

ReverseSpec == ReverseSpecInit /\ [][ReverseNext]_vars

ParseSpec == ParseSpecInit /\ [][ParseNext]_vars

(***************************************************************************)
(* Properties                                                              *)
(***************************************************************************)

\* C1: when the threads' only calls are one get(k) each on a cache that holds no
\* entry (no direct update, no invalidate, no wait that ran into its timeout, no
\* producer failure), the producer is invoked at most once per key.
OnlyFirstGets ==
    /\ \A t \in Threads : t_ops[t] <= 1 /\ t_op[t] \in {None, "get"} /\ t_ret[t] # "raised"
    /\ ~waitExpired
    /\ now = 0
C1_SingleFlight ==
    OnlyFirstGets => \A k \in Keys : invocations[k] <= 1

\* C2: at no time are two invocations of the cache's producer in progress.
C2_OneProducerAtATime ==
    Cardinality(running) <= 1

\* C3: a get(k) goes on to invoke the producer only if no entry is stored for k
\* or the stored entry is older than the timeout.
EntryFresh(k) ==
    /\ c_timestamp[k] # <<>>
    /\ ~(now - CacheTimeout > c_timestamp[k][1])
C3_GetUsesFreshEntry ==
    [][\A t \in Threads :
          (t_pc[t] = "idle" /\ t_pc'[t] = "upd_wait" /\ t_op'[t] = "get")
              => ~EntryFresh(t_key'[t])]_vars


\* the backends whose thread ended in time with a stored result, and the ones that
\* stored after their join had timed out
InTime == {b \in Backends : m_joined[b] = "ended" /\ m_status[b] = "done"}
Late == {b \in Backends : m_joined[b] = "timeout" /\ m_status[b] = "done"}

\* the first backend of B, in configuration order, that produced key k
FirstWith(B, k) == CHOOSE b \in B : k \in DOMAIN m_data[b] /\ \A c \in B : (k \in DOMAIN m_data[c]) => b <= c
\* the merge, by backend priority, of the results of the backends B
PriorityMerge(B) ==
    [k \in UNION {DOMAIN m_data[b] : b \in B} |-> m_data[FirstWith(B, k)][k]]

\* C6: when every backend task finishes, the result holds the union of the backends'
\* keys and, for each key, the payload of the first backend in configuration order
\* that produced it, whatever the order in which the tasks finished.
C6_MergeKeepsPriority ==
    (m_pc = "returned" /\ InTime = Backends) => m_nodes = PriorityMerge(Backends)
\* two backends produced the same node, and the later one in configuration order
\* finished first
C6_Witness ==
    /\ m_pc = "returned"
    /\ InTime = Backends
    /\ m_order[1] = NumBackends
    /\ \E k \in MergeKeys : k \in DOMAIN m_data[1] /\ k \in DOMAIN m_data[NumBackends]

\* C7 as stated: a backend that raised or missed its join timeout contributes no
\* keys, so the result is the merge of the backends that ended in time.
C7_TimedOutIsEmpty ==
    m_pc = "returned" => m_nodes = PriorityMerge(InTime)
\* C7, amended: the result is the priority merge of the backends that ended in time
\* and of some of the backends that stored their result after their join timed out;
\* a backend that raised or is still running contributes no keys.
C7_AbsentIsEmpty ==
    m_pc = "returned" => \E L \in SUBSET Late : m_nodes = PriorityMerge(InTime \cup L)
\* one backend raised, one is still running after its join timed out, and the
\* result holds the data of a third
C7_Witness ==
    /\ m_pc = "returned"
    /\ \E b \in Backends : m_status[b] = "raised" /\ DOMAIN m_data[b] # {}
    /\ \E b \in Backends : m_status[b] = "running" /\ m_joined[b] = "timeout" /\ DOMAIN m_data[b] # {}
    /\ DOMAIN m_nodes # {}

\* what the conditions of verify_link say of two interfaces: both descriptions
\* parse, the nodes differ, each parsed interface ID is a substring of the other
\* side's interface name, each parsed node name a substring of the other side's node
ParsedWithin(parsed, text) == parsed # None /\ Contains(parsed, text)
LinkConditions(local, remote) ==
    LET remote_target == ParseDescription(remote.description)
        local_target == ParseDescription(local.description)
    IN  /\ local_target # NoInterface
        /\ remote_target # NoInterface
        /\ local.node # remote.node
        /\ ParsedWithin(remote_target.interface, local.interface)
        /\ ParsedWithin(local_target.interface, remote.interface)
        /\ ParsedWithin(remote_target.node, local.node)
        /\ ParsedWithin(local_target.node, remote.node)

\* C5: verify_link(local, remote) returns True if and only if the conditions hold,
\* and in every other case it raises VerificationError and no other error
C5_VerifyRaisesOnlyVerificationError ==
    v_result.kind \notin {"pending", "idle"} =>
        IF LinkConditions(v_local, v_remote)
            THEN v_result = Verified
            ELSE v_result.kind \in VerificationErrorKinds

\* C4: every Link get_links_between or discover_nodes emits joins interfaces on two
\* different nodes, and verify_link succeeds on its endpoints in both orders
C4_EmittedLinksVerify ==
    \A l \in 1..Len(x_links) :
        /\ x_links[l].source.node # x_links[l].target.node
        /\ VerifyLink(x_links[l].source, x_links[l].target) = Verified
        /\ VerifyLink(x_links[l].target, x_links[l].source) = Verified
C4_Witness ==
    /\ x_raised = "none"
    /\ x_links # <<>>
    /\ x_op[1] = "discover_nodes"
    /\ verification_errors # {}

\* the backend holds a Rate sample for the interface
HoldsRate(interface) ==
    /\ interface.node \in DOMAIN e_rates
    /\ interface.interface \in DOMAIN e_rates[interface.node]
    /\ e_rates[interface.node][interface.interface] # NullRate
RateOf(interface) == e_rates[interface.node][interface.interface]
\* the between-links of the topology, as get_links_between finds them
LinksBetween == GetLinksBetween(EnrichNodeList, EnrichSkipSelf, {}).links
Returned(link) ==
    {k \in 1..Len(e_result) : e_result[k].source = link.source /\ e_result[k].target = link.target}

\* C8: when the backend holds no Rate for a link's source interface and a Rate r
\* for its target interface, get_rates returns the link with in_rate = r.out,
\* out_rate = r.in and bandwidth = r.bw, whatever calls were made before
C8_OneSidedFallback ==
    (e_op = "get_rates" /\ e_raised = "none") =>
        \A l \in 1..Len(LinksBetween) :
            (~HoldsRate(LinksBetween[l].source) /\ HoldsRate(LinksBetween[l].target)) =>
                \E k \in Returned(LinksBetween[l]) :
                    /\ e_result[k].in_rate = RateOf(LinksBetween[l].target).out_r
                    /\ e_result[k].out_rate = RateOf(LinksBetween[l].target).in_r
                    /\ e_result[k].bandwidth = RateOf(LinksBetween[l].target).bw

\* C9: a link neither endpoint of which has a Rate sample at the time of the call
\* is absent from the result of get_rates, whatever calls were made before
C9_NoRateNoLink ==
    (e_op = "get_rates" /\ e_raised = "none") =>
        \A k \in 1..Len(e_result) :
            HoldsRate(e_result[k].source) \/ HoldsRate(e_result[k].target)

\* C10: get_rates returns and does not raise, also when the backend has no data
\* for the node of a link's source or target endpoint
C10_GetRatesDoesNotRaise ==
    e_op = "get_rates" => e_raised = "none"

\* C11: Link(A, B) equals Link(B, A) and has the same hash, so that a set which
\* was given both holds a single element
C11_SwappedLinksOneElement ==
    k_added = {"ab", "ba"} =>
        /\ LinkEq(Link(k_a, k_b), Link(k_b, k_a))
        /\ LinkHash(Link(k_a, k_b)) = LinkHash(Link(k_b, k_a))
        /\ Cardinality(k_set) = 1

\* C12: _parse_description returns the same (node, interface), or None in both
\* cases, for a description and for the description with a year of the last 15
\* calendar years put in among the segments after its first
C12_YearTokenIgnored ==
    (p_parsed # <<>> /\ p_dated # <<>>) => p_parsed = p_dated
\* the year stands between the node name and the interface ID that were parsed
C12_Witness ==
    /\ p_parsed # <<>>
    /\ p_dated # <<>>
    /\ p_parsed[1] # NoInterface
    /\ p_parsed[1].node = "node-a"
    /\ p_year = "2026"
    /\ p_pos = Len(p_tokens) - 1
    /\ p_tokens[Len(p_tokens)] = "Te1/1"

\* C13: the parser never takes for remote_node a token of the description that is
\* an entry of NODE_EXCLUDELIST
C13_ExcludedNodeNeverChosen ==
    p_parsed # <<>> =>
        \A i \in 1..Len(p_tokens) :
            p_tokens[i] \in NODE_EXCLUDELIST => p_parsed[1].node # Lower(p_tokens[i])

\* the interfaces get_links_between(nodelist, skip_self) takes for candidates
Candidates(nodelist, skip_self) ==
    MatchedBetween(GetAllLinks(nodelist, TRUE), nodelist, skip_self)
\* one entry of nodelist is a substring of the interface's node and description
SelfMatch(interface, nodelist) ==
    \E m \in 1..Len(nodelist) :
        Contains(nodelist[m], interface.node) /\ Contains(nodelist[m], interface.description)

\* C14: with skip_self, no link get_links_between(nodes) emits has an endpoint
\* for which one entry of nodes is a substring of both its node name and its
\* description
C14_SkipSelfDropsSelfMatches ==
    (x_op[1] = "get_links_between" /\ x_op[3] /\ x_raised = "none") =>
        \A l \in 1..Len(x_links) :
            /\ ~SelfMatch(x_links[l].source, x_op[2])
            /\ ~SelfMatch(x_links[l].target, x_op[2])

\* C16: a recorded error stays in the verification-error set over every call and
\* every change of the descriptions, and reset_discover_errors empties the set
C16_ErrorsAppendOnly ==
    [][IF x_op'[1] = "reset_discover_errors"
           THEN verification_errors' = {}
           ELSE verification_errors \subseteq verification_errors']_vars
\* an error outlived the fix of the description it names and a later discovery
C16_Witness ==
    /\ x_op[1] = "discover_nodes"
    /\ x_raised = "none"
    /\ \E e \in verification_errors :
          /\ e.kind = "unparsable"
          /\ d_desc[1][e.a.node][e.a.interface] # e.a.description

\* the messages that say the interface's description could not be parsed
ParseFailures(interface) ==
    {e \in verification_errors : e.kind = "unparsable" /\ e.a = interface}

\* C17: a candidate whose description cannot be parsed makes no link and no
\* exception, and the verification-error set then holds one message for it
SkippedAndRecorded(candidates) ==
    \A c \in 1..Len(candidates) :
        ParseDescription(candidates[c].description) = NoInterface =>
            /\ x_raised = "none"
            /\ \A l \in 1..Len(x_links) :
                  x_links[l].source # candidates[c] /\ x_links[l].target # candidates[c]
            /\ Cardinality(ParseFailures(candidates[c])) = 1
C17_ParseFailureRecordedOnce ==
    x_op[1] = "get_links_between" => SkippedAndRecorded(Candidates(x_op[2], x_op[3]))

\* the filter's condition for a candidate and the label X--Y: the candidate's node
\* matches an entry of nodes, it contains Y, and the description contains X
LocalityHolds(candidate, nodelist, label) ==
    /\ \E m \in 1..Len(nodelist) : Contains(nodelist[m], candidate.node)
    /\ Contains(SpecificNode(label), candidate.node)
    /\ Contains(Lower(RemoteName(label)), Lower(candidate.description))
\* the interfaces whose description holds a segment of REMOTE_INCLUDELIST
RemoteCandidates(interfaces) ==
    {interfaces[i] : i \in {j \in 1..Len(interfaces) : RemoteIncluded(interfaces[j].description)}}
LocalityFilter(candidates, nodelist, label) ==
    /\ \A c \in candidates :
          (\E k \in 1..Len(x_links) : x_links[k].source = c) <=> LocalityHolds(c, nodelist, label)
    /\ \A k \in 1..Len(x_links) : x_links[k].remote = label

\* C15: for a label X--Y, get_links_remote(nodes, [X--Y]) returns a Remote for a
\* candidate exactly when the candidate's node matches an entry of nodes and
\* contains Y and its description contains X, and the Remote's label is X--Y
C15_LocalityFilter ==
    (x_op[1] = "get_links_remote" /\ IsLocal(x_op[3][1])) =>
        LocalityFilter(RemoteCandidates(GetAllLinks(NoArgs, FALSE)), x_op[2], x_op[3][1])

\* the timelines returned for the link
TimelinesOf(link) ==
    {k \in 1..Len(e_result) :
        /\ e_result[k] # <<>>
        /\ e_result[k][1].source = link.source
        /\ e_result[k][1].target = link.target}
\* the timeline has one snapshot per sample, in order, each with the sample's rates
\* and no state
FollowsSamples(timeline_link, samples) ==
    /\ Len(timeline_link) = Len(samples)
    /\ \A j \in 1..Len(samples) :
          /\ timeline_link[j].state = None
          /\ timeline_link[j].in_rate = samples[j].in_r
          /\ timeline_link[j].out_rate = samples[j].out_r
          /\ timeline_link[j].bandwidth = samples[j].bw
NoStateTimelines(links) ==
    \A l \in 1..Len(links) :
        (/\ h_rates[links[l].source.node][links[l].source.interface] # <<>>
         /\ h_states[links[l].source.node][links[l].source.interface] = <<>>) =>
            \E k \in TimelinesOf(links[l]) :
                FollowsSamples(e_result[k], h_rates[links[l].source.node][links[l].source.interface])

\* C18: for a link whose source interface has k historic rate samples and no
\* historic state samples, get_rates_timeline returns k snapshots in sample
\* order, each with a null state and the sample's rates, whatever calls were
\* made before
C18_TimelineWithoutStates ==
    (e_op = "get_rates_timeline" /\ e_raised = "none") => NoStateTimelines(LinksBetween)

\* the bucket's bandwidth (rates) or LBC (optics) is null
NullBucket(kind, point) == IF kind = "rates" THEN point.bw = Null ELSE point.lbc = Null
\* the entry a bucket contributes
BucketEntry(kind, point) ==
    IF NullBucket(kind, point) THEN Null
    ELSE IF kind = "rates" THEN <<PointRate(point)>> ELSE <<PointOptic(point)>>
\* the list holds one entry per bucket, in bucket order
EntryPerBucket(kind, points, parsed) ==
    /\ parsed # <<>>
    /\ Len(parsed[1]) = Len(points)
    /\ \A k \in 1..Len(points) : parsed[1][k] = BucketEntry(kind, points[k])

\* C19: on the historic path every interface's list has exactly one entry per
\* time bucket of the query, in bucket order: a null placeholder for a bucket
\* whose bandwidth (rates) or LBC (optics) is null, the sample otherwise
C19_HistoricEntryPerBucket ==
    i_op # "none" => EntryPerBucket(i_kind, i_query[1].points, i_parsed["0/0/0/1"])

\* C20: for any requested name list, the node names of the merged result with one
\* more backend that holds a new node are a superset of the node names of the
\* merged result without it
C20_ResolutionMonotone ==
    (r_base # <<>> /\ r_more # <<>>) => DOMAIN r_base[1] \subseteq DOMAIN r_more[1]
\* both calls were made, the backends resolved an abbreviated name, and the extra
\* backend, put in front of them, added a node
C20_Witness ==
    /\ r_base # <<>>
    /\ r_more # <<>>
    /\ r_request = <<"node">>
    /\ r_at = 0
    /\ DOMAIN r_base[1] # {}
    /\ DOMAIN r_more[1] # DOMAIN r_base[1]

\* the backend holds a State for the link's source endpoint
HoldsState(link) ==
    /\ link.source.node \in DOMAIN e_states
    /\ link.source.interface \in DOMAIN e_states[link.source.node]
\* every link of the list carries the state of its source endpoint
SourceStates(links) ==
    \A k \in 1..Len(links) :
        HoldsState(links[k]) =>
            links[k].state = e_states[links[k].source.node][links[k].source.interface]

\* C21: every link get_rates returns (without remotes) carries the state of its
\* source endpoint whenever the backends hold a State for it, also when the rates
\* came from the target side
C21_SourceStateAttached ==
    (e_op = "get_rates" /\ e_raised = "none") => SourceStates(e_result)

\* the rate emitted for the interface is (current counter - stored counter) * 8 over
\* the seconds since the stored counter was read, and at least a second elapsed
RateAsStated(last, name) ==
    /\ name \in DOMAIN last.prev.counters
    /\ name \in DOMAIN last.read_at
    /\ last.rates[name].halfseconds >= 2
    /\ last.rates[name].bits * (last.time - last.read_at[name])
         = (last.reading[OidOf(name)] - last.prev.counters[name]) * 8
              * last.rates[name].halfseconds

\* C22: every rate _compute_rates emits for an interface equals (current counter -
\* the counter stored for it) * 8 / (seconds since that stored counter was read), none
\* is emitted on the first observation or when less than a second elapsed, for every
\* sequence of refreshes
C22_RateFromStoredCounter ==
    s_last.called => \A name \in DOMAIN s_last.rates : RateAsStated(s_last, name)

\* C28: the previous-counter tables are written by the poll loop only, never by a
\* request-side call
C28_TablesWrittenByPollLoop == s_writer # "request"

\* C24: each of the four historic calls of the SNMP backend returns an empty mapping
\* and raises nothing, for any node list and time window
C24_HistoricCallsReturnEmpty ==
    u_call \in HistoricCalls => u_result[1] = CallReturned(EmptyDict)

\* the enum value stated for a vendor string
Normalized(state) ==
    CASE state = "im-state-up" -> "up"
      [] state = "im-state-down" -> "down"
      [] state = "im-state-admin-down" -> "shut"
      [] state = "im-state-err-disable" -> "errdisable"
      [] OTHER -> "unknown"
\* every sample of the result carries the stated enum value
StatesNormalized(single, points, parsed) ==
    IF single THEN parsed.state = Normalized(points)
    ELSE \A k \in 1..Len(points) :
            parsed[k] = <<StateSample(Normalized(points[k]), k)>>

\* C25: the TSDB state normalization maps the four vendor strings to up, down, shut
\* and errdisable and every other string, or a missing value, to unknown, on the
\* single-sample and on the historic path
C25_StatesNormalized ==
    u_call = "_parse_states" => StatesNormalized(u_arg.single, u_arg.points, u_result[1])

\* C26: R.reverse().reverse() equals R, and R.reverse() has R's out as in, R's in as
\* out and R's bandwidth, datasource and timestamp
C26_ReverseInvolution ==
    /\ u_call = "reverse" =>
          /\ u_result[1].in_r = u_arg.out_r
          /\ u_result[1].out_r = u_arg.in_r
          /\ u_result[1].bw = u_arg.bw
          /\ u_result[1].datasource = u_arg.datasource
          /\ u_result[1].datetime = u_arg.datetime
    /\ u_call = "reverse.reverse" => u_result[1] = u_arg
\* a Rate whose directions differ was reversed twice
C26_Witness ==
    /\ u_call = "reverse.reverse"
    /\ u_arg.in_r # u_arg.out_r
    /\ u_result[1].in_r = u_arg.in_r

\* C23: a host that is in failed_hosts and whose device answers from some time on
\* eventually leaves failed_hosts and is polled by the loop.
C23_RetriedHostIsPolled ==
    \A host \in SnmpHosts :
        (host \in failed_hosts /\ <>[](n_answers[host] = "ok"))
            => <>(host \notin failed_hosts /\ host \in n_polled)

\* the endpoints of the links of the cached list
CachedPairs(cache) ==
    {<<cache[1][k].source, cache[1][k].target>> : k \in 1..Len(cache[1])}

\* C27: a get_rates that finds the list of links in the cache leaves the list with
\* the links it had, so a link dropped from one result is considered by the next call.
C27_CachedLinksKept ==
    [][(~Expired /\ e_op' = "get_rates") => CachedPairs(e_cache') = CachedPairs(e_cache)]_vars

\* the endpoints of the emitted links
Endpoints(links) == [k \in 1..(2 * Len(links)) |->
                        IF k % 2 = 1 THEN links[(k + 1) \div 2].source ELSE links[k \div 2].target]
\* matched_descriptions of the call made last
MatchedLast ==
    IF x_op[1] = "get_links_between"
        THEN MatchedBetween(GetAllLinks(x_op[2], TRUE), x_op[2], x_op[3])
        ELSE MatchedDiscover(GetAllLinks(NoArgs, TRUE),
                             FilteredNodes(GetAllLinks(NoArgs, TRUE), x_op[2]))
\* match, which is in no link, found an interface a link emitted before holds
FoundPairedBefore(matched_descriptions, match) ==
    /\ ~InSeq(match, Endpoints(x_links))
    /\ InSeq(SearchByDescription(matched_descriptions, match).found, Endpoints(x_links))

\* C29: no Interface is an endpoint of two Links of the result of get_links_between
\* or of the pairing of discover_nodes, nor both endpoints of one.
C29_InterfacePairedOnce ==
    \A k, l \in 1..Len(Endpoints(x_links)) :
        Endpoints(x_links)[k] = Endpoints(x_links)[l] => k = l
\* two links came out of a candidate list that holds an interface twice, and a third
\* pairing was refused because the interface found was paired already
C29_Witness ==
    /\ x_op[1] \in {"get_links_between", "discover_nodes"}
    /\ x_raised = "none"
    /\ Len(x_links) >= 2
    /\ \E i, j \in 1..Len(MatchedLast) : i # j /\ MatchedLast[i] = MatchedLast[j]
    /\ \E i \in 1..Len(MatchedLast) : FoundPairedBefore(MatchedLast, MatchedLast[i])

\* C30: while no thread is inside Cache.update or Cache.invalidate the Event cached
\* is set, also after a producer raised out of update.
C30_FlagSetWhenNoUpdateRuns ==
    (\A t \in Threads : t_pc[t] \in {"idle", "get_ret"}) => c_cached

=========================================================================
